---- MODULE Spec2Model ----
(***************************************************************************)
(* Fronthaul topology inference and link capacity pipeline                 *)
(* (backend/services): congestion labelling, congestion correlation,       *)
(* topology inference, slot conversion, link aggregation and capacity      *)
(* estimation, and the pipeline that chains them (demo_eval2.py).          *)
(*                                                                         *)
(* Each stage is a pure function of its input; a stage is modelled as an   *)
(* operator that computes what the code computes, and one action applies   *)
(* it to an input drawn from a bounded set by the stage's Init.            *)
(*                                                                         *)
(* Numbers: correlation values are kept in units of 1/10000 (the code      *)
(* rounds them to 4 decimals), traffic in whole bits.  Cell ids are the    *)
(* integers 1..n, ordered as the code's ids are ordered by Python's <.     *)
(* Text (link labels, column names) is a sequence of character codes, so   *)
(* that formatting and lexicographic order are computed, not assumed.      *)
(***************************************************************************)
EXTENDS Integers, Sequences, FiniteSets, TLC

VARIABLES
    pc,                  \* position of the running stage
    df,                  \* the input frame of the stage: a sequence of records
    result,              \* detect_congestion: the returned frame
    correlation_matrix,  \* result of compute_congestion_correlation, input
                         \* of infer_topology (dict of dicts, in 1/10000)
    threshold,           \* infer_topology: input threshold, in 1/10000
    cell_to_link,        \* infer_topology: returned mapping cell -> label
    slot_df,             \* result of convert_symbols_to_slots, input of
                         \* aggregate_slot_traffic_by_link
    topology,            \* aggregate_slot_traffic_by_link: cell -> label
    link_traffic,        \* result of aggregate_slot_traffic_by_link, input
                         \* of the capacity estimators
    traffic_per_slot,    \* simulate_buffer, find_minimum_capacity: the trace
    capacity_bits_per_slot, \* simulate_buffer: the capacity under test
    buffer_symbols,      \* buffer size in symbols
    loss_tolerance,      \* allowed ratio of loss slots, in 1/100
    slot_index,          \* simulate_buffer: slots consumed by the loop
    buffer_occupancy,    \* simulate_buffer: bits queued
    loss_slots,          \* simulate_buffer: slots that overflowed
    max_buffer_usage,    \* simulate_buffer: peak of buffer_occupancy
    min_capacity,        \* find_minimum_capacity: lower end of the search
    max_capacity,        \* find_minimum_capacity: upper end of the search
    iterations,          \* find_minimum_capacity: iterations done
    returned,            \* value returned by simulate_buffer or
                         \* find_minimum_capacity
    capacity_no_buffer,  \* result of estimate_capacity_no_buffer
    capacity_with_buffer, \* result of estimate_capacity_with_buffer
    symbol_df,           \* whole pipeline: the symbol-level throughput frame
    visit_order,         \* whole pipeline: the order in which the last
                         \* infer_topology iterated over its set of cells
    previous,            \* whole pipeline: the results of the run before
    stream_state,        \* app.py: the global _stream_state
    total_timestamps,    \* live_stream: distinct timestamps of the dataset
    requests,            \* live_stream: the locals of the requests being
                         \* handled, one handler thread per client
    response             \* live_stream: the last response sent

\* the variables of the capacity estimators
estimatorVars == <<traffic_per_slot, capacity_bits_per_slot, buffer_symbols,
                   loss_tolerance, slot_index, buffer_occupancy, loss_slots,
                   max_buffer_usage, min_capacity, max_capacity, iterations,
                   returned, capacity_no_buffer, capacity_with_buffer>>

\* the variables of a run of the whole pipeline and of its repetition
rerunVars == <<symbol_df, visit_order, previous>>

\* the variables of the live-stream endpoint
streamVars == <<stream_state, total_timestamps, requests, response>>

vars == <<pc, df, result, correlation_matrix, threshold, cell_to_link,
          slot_df, topology, link_traffic, estimatorVars, rerunVars, streamVars>>

(***************************************************************************)
(* Bounds of the model                                                     *)
(***************************************************************************)
\* cells of a correlation matrix handed to infer_topology
MaxCells == 3
\* stored entries of a sparsely (possibly one-directionally) populated matrix
MaxEntries == 2
\* cells of a traffic record set
MaxTrafficCells == 2
\* sampling instants of a traffic record set
MaxTime == 4
\* records of a frame handed to detect_congestion
MaxRecords == 2
\* cells of a symbol-level or slot-level frame
MaxSlotCells == 2
\* highest slot id of a symbol-level or slot-level frame
MaxSlot == 1
\* rows of a symbol-level frame whose symbols are scattered
MaxSymbolRows == 2
\* symbols of a contiguous single-cell trace
MaxTraceLen == 16
\* rows of a slot-level frame handed to aggregate_slot_traffic_by_link
MaxSlotRows == 2
\* slots of a trace handed to simulate_buffer
MaxBufferSlots == 5
\* slots of a trace handed to find_minimum_capacity
MaxSearchSlots == 4
\* rows of a link traffic table of several link columns handed to the
\* estimators; a table of one link column has up to one row more
MaxCapacityRows == 2
\* cells of the input of a run of the whole pipeline
MaxPipelineCells == 2

\* rows of a frame offered to a schema check
MaxSchemaRows == 1
\* significant bits of a float of the rounded simulation
MantissaBits == 3
\* bits after the binary point of a float of the rounded simulation
FractionBits == 2
\* slots of a trace of the rounded simulation
MaxRoundedSlots == 2

(***************************************************************************)
(* Generic helpers                                                         *)
(***************************************************************************)
Range(f) == {f[x] : x \in DOMAIN f}

Min(S) == CHOOSE x \in S : \A y \in S : x <= y

\* the empty dict
EmptyDict == [x \in {} |-> 0]

\* a wide table without columns and rows
EmptyTable == [columns |-> <<>>, rows |-> <<>>]

\* every ordering of the elements of a finite set (a Python set iterates in
\* an order that depends on hashing, so any of them may be the one seen)
Orderings(S) ==
    {f \in [1..Cardinality(S) -> S] : \A i, j \in 1..Cardinality(S) : f[i] = f[j] => i = j}

Reverse(s) == [i \in 1..Len(s) |-> s[Len(s) + 1 - i]]

RECURSIVE SeqToSet(_)
SeqToSet(s) == IF s = <<>> THEN {} ELSE {Head(s)} \cup SeqToSet(Tail(s))

\* the capacity estimators have not been entered
EstimatorIdle ==
    /\ traffic_per_slot = <<>>
    /\ capacity_bits_per_slot = 0
    /\ buffer_symbols = 0
    /\ loss_tolerance = 0
    /\ slot_index = 0
    /\ buffer_occupancy = 0
    /\ loss_slots = 0
    /\ max_buffer_usage = 0
    /\ min_capacity = 0
    /\ max_capacity = 0
    /\ iterations = 0
    /\ returned = <<>>
    /\ capacity_no_buffer = EmptyDict
    /\ capacity_with_buffer = EmptyDict

\* no run of the whole pipeline is under way
RerunIdle ==
    /\ symbol_df = <<>>
    /\ visit_order = <<>>
    /\ previous = <<>>

\* the live-stream endpoint serves no request
StreamIdle ==
    /\ stream_state = [current_index |-> 0, is_streaming |-> FALSE, speed |-> 1]
    /\ total_timestamps = 0
    /\ requests = <<>>
    /\ response = <<>>

(***************************************************************************)
(* Text: Python str as a sequence of character codes                       *)
(***************************************************************************)
\* "Link_"
LinkPrefix == <<76, 105, 110, 107, 95>>

\* str(n) for n >= 0: decimal digits, most significant first
RECURSIVE IntToStr(_)
IntToStr(n) == IF n < 10 THEN <<48 + n>> ELSE Append(IntToStr(n \div 10), 48 + (n % 10))

\* f"Link_{link_index}"
LinkLabel(link_index) == LinkPrefix \o IntToStr(link_index)

(***************************************************************************)
(* topology.py: infer_topology                                             *)
(***************************************************************************)
\* all_cells: outer keys plus the cells that appear only as inner keys
AllCellsOuterOnly(matrix) == DOMAIN matrix

\* a variant that reports a placeholder cell when the matrix names no cell
AllCellsPlaceholder(matrix) ==
    IF DOMAIN matrix = {} THEN {0}
    ELSE (DOMAIN matrix) \cup UNION {DOMAIN matrix[a] : a \in DOMAIN matrix}

AllCells(matrix) ==
    (DOMAIN matrix) \cup UNION {DOMAIN matrix[a] : a \in DOMAIN matrix}

\* the edge test of the adjacency loop
EdgeTestStrict(corr_value, thr) == corr_value > thr

EdgeTest(corr_value, thr) == corr_value >= thr

\* adjacency[cell_a].add(cell_b) and adjacency[cell_b].add(cell_a) raise
\* KeyError when an end of a stored pair that passes the test is not a key
\* of the adjacency dict, whose keys are all_cells
AdjacencyKeyError(matrix, thr) ==
    \E cell_a \in DOMAIN matrix : \E cell_b \in DOMAIN matrix[cell_a] :
        /\ EdgeTest(matrix[cell_a][cell_b], thr)
        /\ (cell_a \notin AllCells(matrix) \/ cell_b \notin AllCells(matrix))

\* a variant that records an edge only at the cell whose row stores it
\* (adjacency[cell_a].add(cell_b) without the reverse insertion)
AdjacencyOneWay(matrix, thr) ==
    [cell \in AllCells(matrix) |->
        {other \in AllCells(matrix) :
            /\ cell \in DOMAIN matrix
            /\ other \in DOMAIN matrix[cell]
            /\ EdgeTest(matrix[cell][other], thr)}]

\* adjacency: an edge is added in both directions for every stored entry
\* (cell_a, cell_b) whose value passes the test
Adjacency(matrix, thr) ==
    [cell \in AllCells(matrix) |->
        {other \in AllCells(matrix) :
            \/ /\ cell \in DOMAIN matrix
               /\ other \in DOMAIN matrix[cell]
               /\ EdgeTest(matrix[cell][other], thr)
            \/ /\ other \in DOMAIN matrix
               /\ cell \in DOMAIN matrix[other]
               /\ EdgeTest(matrix[other][cell], thr)}]

\* the inner while loop: breadth-first traversal from the queue; neighbours
\* are appended in the iteration order nbr_order of the adjacency sets
RECURSIVE BFS(_, _, _, _, _)
BFS(queue, visited, component, adjacency, nbr_order) ==
    IF queue = <<>>
    THEN [visited |-> visited, component |-> component]
    ELSE LET current == Head(queue)
             rest == Tail(queue)
         IN  IF current \in visited
             THEN BFS(rest, visited, component, adjacency, nbr_order)
             ELSE LET now_visited == visited \cup {current}
                      neighbors == SelectSeq(nbr_order,
                          LAMBDA n : n \in adjacency[current] /\ n \notin now_visited)
                  IN  BFS(rest \o neighbors, now_visited,
                          Append(component, current), adjacency, nbr_order)

\* the outer for loop over all_cells (a list in iteration order)
RECURSIVE FindComponents(_, _, _, _, _)
FindComponents(cells, visited, components, adjacency, nbr_order) ==
    IF cells = <<>>
    THEN components
    ELSE LET cell == Head(cells)
         IN  IF cell \in visited
             THEN FindComponents(Tail(cells), visited, components, adjacency, nbr_order)
             ELSE LET r == BFS(<<cell>>, visited, <<>>, adjacency, nbr_order)
                  IN  FindComponents(Tail(cells), r.visited,
                          Append(components, r.component), adjacency, nbr_order)

\* key=lambda c: (-len(c), min(c)), compared as Python compares tuples
ComponentBeforeBySizeAscending(c, d) ==
    \/ Len(c) < Len(d)
    \/ Len(c) = Len(d) /\ Min(SeqToSet(c)) < Min(SeqToSet(d))

\* without min(c) in the key components of equal size stay in the order
\* in which the traversal found them
ComponentBeforeBySizeOnly(c, d) == -Len(c) < -Len(d)

ComponentBefore(c, d) ==
    \/ -Len(c) < -Len(d)
    \/ -Len(c) = -Len(d) /\ Min(SeqToSet(c)) < Min(SeqToSet(d))

\* list.sort: stable; an element goes after every element that is not
\* strictly after it
RECURSIVE InsertComponent(_, _)
InsertComponent(sorted, c) ==
    IF sorted = <<>> THEN <<c>>
    ELSE IF ComponentBefore(c, Head(sorted))
         THEN <<c>> \o sorted
         ELSE <<Head(sorted)>> \o InsertComponent(Tail(sorted), c)

RECURSIVE SortComponents(_)
SortComponents(components) ==
    IF components = <<>> THEN <<>>
    ELSE InsertComponent(SortComponents(SubSeq(components, 1, Len(components) - 1)),
                         components[Len(components)])

\* enumerate(components, start=1): cell -> f"Link_{link_index}"; a later
\* assignment to the same key would replace an earlier one
AssignLabels(components) ==
    [cell \in UNION {SeqToSet(components[i]) : i \in DOMAIN components} |->
        LinkLabel(CHOOSE i \in DOMAIN components :
            /\ cell \in SeqToSet(components[i])
            /\ \A j \in DOMAIN components : j > i => cell \notin SeqToSet(components[j]))]

\* infer_topology, for one iteration order of all_cells (cell_order) and of
\* the adjacency sets (nbr_order)
InferTopology(matrix, thr, cell_order, nbr_order) ==
    AssignLabels(SortComponents(
        FindComponents(cell_order, {}, <<>>, Adjacency(matrix, thr), nbr_order)))

(***************************************************************************)
(* Inputs of infer_topology                                                *)
(***************************************************************************)
Cells == 1..MaxCells

\* the default threshold 0.7
DefaultThreshold == 7000

\* correlation values: below, at and above the default threshold
CorrValues == {1000, DefaultThreshold, 9000}

Thresholds == {DefaultThreshold}

OffDiagonal == {p \in Cells \X Cells : p[1] # p[2]}

\* the dict of dicts holding the entries E with the values val, plus the
\* outer keys `outer` (whose dict may be empty)
MatrixOf(E, val, outer) ==
    [a \in outer \cup {p[1] : p \in E} |->
        [b \in {p[2] : p \in {q \in E : q[1] = a}} |-> val[<<a, b>>]]]

\* the sets of at most MaxEntries ordered pairs: the entries of a sparsely
\* populated matrix, each direction stored or not on its own
SparseEntrySets == {F \in SUBSET OffDiagonal : Cardinality(F) <= MaxEntries}

\* the ordered and the unordered pairs of distinct cells of S
PairsOf(S) == {p \in OffDiagonal : p[1] \in S /\ p[2] \in S}

UnorderedPairsOf(S) == {p \in PairsOf(S) : p[1] < p[2]}

\* the matrix as compute_congestion_correlation builds it: every ordered
\* pair of the cells S stored, both directions holding the pair's value
SymmetricMatrix(S, val) ==
    MatrixOf(PairsOf(S),
             [p \in PairsOf(S) |-> IF p[1] < p[2] THEN val[p] ELSE val[<<p[2], p[1]>>]], S)

(***************************************************************************)
(* Specification of the topology stage                                     *)
(***************************************************************************)
InitTopology ==
    /\ pc = "topology"
    /\ EstimatorIdle
    /\ RerunIdle
    /\ StreamIdle
    /\ df = <<>>
    /\ result = <<>>
    /\ \/ \E E \in SparseEntrySets : \E val \in [E -> CorrValues] :
             correlation_matrix = MatrixOf(E, val, {})
       \/ \E S \in SUBSET Cells : \E val \in [UnorderedPairsOf(S) -> CorrValues] :
             correlation_matrix = SymmetricMatrix(S, val)
    /\ threshold \in Thresholds
    /\ cell_to_link = EmptyDict
    /\ slot_df = <<>>
    /\ topology = EmptyDict
    /\ link_traffic = EmptyTable

InferTopologyCall ==
    /\ pc = "topology"
    /\ IF AdjacencyKeyError(correlation_matrix, threshold)
       THEN /\ pc' = "topology_error"
            /\ UNCHANGED cell_to_link
       ELSE /\ \E cell_order \in Orderings(AllCells(correlation_matrix)) :
               \E nbr_order \in {cell_order, Reverse(cell_order)} :
                   cell_to_link' =
                       InferTopology(correlation_matrix, threshold, cell_order, nbr_order)
            /\ pc' = "topology_done"
    /\ UNCHANGED <<estimatorVars, rerunVars, streamVars>>
    /\ UNCHANGED <<df, result, correlation_matrix, threshold, slot_df, topology,
                   link_traffic>>

NextTopology == InferTopologyCall

SpecTopology == InitTopology /\ [][NextTopology]_vars

(***************************************************************************)
(* congestion.py: detect_congestion                                        *)
(***************************************************************************)
\* the congestion rule: result["packet_loss"] > 0
IsCongestedNonNegative(packet_loss) == packet_loss >= 0

IsCongested(packet_loss) == packet_loss > 0

\* result = df.copy(); result["is_congested"] = ...: every row keeps its
\* fields and gains is_congested
Annotate(frame) ==
    [i \in 1..Len(frame) |->
        [timestamp |-> frame[i].timestamp,
         cell_id |-> frame[i].cell_id,
         throughput |-> frame[i].throughput,
         packet_loss |-> frame[i].packet_loss,
         is_congested |-> IsCongested(frame[i].packet_loss)]]

\* the caller's frame after the call: the column is added to a copy
InputAfterDetect(frame) == frame

DetectCongestion(frame) == [input |-> InputAfterDetect(frame), result |-> Annotate(frame)]

(***************************************************************************)
(* Inputs of detect_congestion                                             *)
(***************************************************************************)
TrafficCells == 1..MaxTrafficCells

Times == 1..MaxTime

\* packet loss metric: negative (malformed), none, some
PacketLosses == {-1, 0, 5}

Throughputs == {100}

TrafficRecords ==
    [timestamp : Times, cell_id : TrafficCells, throughput : Throughputs,
     packet_loss : PacketLosses]

(***************************************************************************)
(* Specification of the congestion labelling stage                         *)
(***************************************************************************)
InitCongestion ==
    /\ pc = "congestion"
    /\ EstimatorIdle
    /\ RerunIdle
    /\ StreamIdle
    /\ \E n \in 0..MaxRecords : df \in [1..n -> TrafficRecords]
    /\ result = <<>>
    /\ correlation_matrix = EmptyDict
    /\ threshold = DefaultThreshold
    /\ cell_to_link = EmptyDict
    /\ slot_df = <<>>
    /\ topology = EmptyDict
    /\ link_traffic = EmptyTable

DetectCongestionCall ==
    /\ pc = "congestion"
    /\ df' = DetectCongestion(df).input
    /\ result' = DetectCongestion(df).result
    /\ pc' = "congestion_done"
    /\ UNCHANGED <<estimatorVars, rerunVars, streamVars>>
    /\ UNCHANGED <<correlation_matrix, threshold, cell_to_link, slot_df, topology,
                   link_traffic>>

NextCongestion == DetectCongestionCall

SpecCongestion == InitCongestion /\ [][NextCongestion]_vars

(***************************************************************************)
(* correlation.py: compute_congestion_correlation                          *)
(***************************************************************************)
\* df["cell_id"].unique(): the cell ids of the frame
CellIds(frame) == {frame[i].cell_id : i \in 1..Len(frame)}

\* congested_timestamps[cell_id]: the set of timestamps of the cell's rows
\* whose is_congested is true
CongestedTimestamps(frame, cell_id) ==
    {frame[i].timestamp : i \in {j \in 1..Len(frame) :
        frame[j].cell_id = cell_id /\ frame[j].is_congested}}

\* min_count = min(count_a, count_b)
MinCountFirst(count_a, count_b) == count_a

MinCount(count_a, count_b) == IF count_a <= count_b THEN count_a ELSE count_b

\* round(overlap / min_count, 4), in 1/10000: the nearest multiple of
\* 0.0001, a tie going to the even one (a tie needs min_count >= 32)
Round4Truncate(overlap, min_count) == (10000 * overlap) \div min_count

Round4(overlap, min_count) ==
    LET q == (10000 * overlap) \div min_count
        r == (10000 * overlap) % min_count
    IN  IF 2 * r < min_count THEN q
        ELSE IF 2 * r > min_count THEN q + 1
        ELSE IF q % 2 = 0 THEN q ELSE q + 1

\* the value stored for one ordered pair
PairCorrelation(timestamps_a, timestamps_b) ==
    LET count_a == Cardinality(timestamps_a)
        count_b == Cardinality(timestamps_b)
        overlap == Cardinality(timestamps_a \cap timestamps_b)
        min_count == MinCount(count_a, count_b)
    IN  IF min_count = 0 THEN 0 ELSE Round4(overlap, min_count)

ComputeCongestionCorrelation(frame) ==
    [cell_a \in CellIds(frame) |->
        [cell_b \in CellIds(frame) \ {cell_a} |->
            PairCorrelation(CongestedTimestamps(frame, cell_a),
                            CongestedTimestamps(frame, cell_b))]]

(***************************************************************************)
(* Inputs of compute_congestion_correlation                                *)
(***************************************************************************)
\* the labelled frame with one record per cell of S per sampling instant,
\* in time order, cell c congested at the instants congested[c]
RECURSIVE LabelledFrame(_, _, _)
LabelledFrame(S, congested, t) ==
    IF t > MaxTime THEN <<>>
    ELSE LET RECURSIVE Row(_)
             Row(cs) ==
                 IF cs = {} THEN <<>>
                 ELSE LET c == Min(cs)
                      IN  <<[timestamp |-> t, cell_id |-> c, throughput |-> 100,
                             packet_loss |-> IF t \in congested[c] THEN 5 ELSE 0,
                             is_congested |-> t \in congested[c]]>> \o Row(cs \ {c})
         IN  Row(S) \o LabelledFrame(S, congested, t + 1)

(***************************************************************************)
(* Specification of the correlation stage                                  *)
(***************************************************************************)
InitCorrelation ==
    /\ pc = "correlation"
    /\ EstimatorIdle
    /\ RerunIdle
    /\ StreamIdle
    /\ \E S \in SUBSET TrafficCells : \E congested \in [S -> SUBSET Times] :
          df = LabelledFrame(S, congested, 1)
    /\ result = <<>>
    /\ correlation_matrix = EmptyDict
    /\ threshold = DefaultThreshold
    /\ cell_to_link = EmptyDict
    /\ slot_df = <<>>
    /\ topology = EmptyDict
    /\ link_traffic = EmptyTable

ComputeCorrelationCall ==
    /\ pc = "correlation"
    /\ correlation_matrix' = ComputeCongestionCorrelation(df)
    /\ pc' = "correlation_done"
    /\ UNCHANGED <<estimatorVars, rerunVars, streamVars>>
    /\ UNCHANGED <<df, result, threshold, cell_to_link, slot_df, topology,
                   link_traffic>>

NextCorrelation == ComputeCorrelationCall

SpecCorrelation == InitCorrelation /\ [][NextCorrelation]_vars

(***************************************************************************)
(* slot_conversion.py: convert_symbols_to_slots                            *)
(***************************************************************************)
SYMBOLS_PER_SLOT == 14

\* data["symbol_index"] // SYMBOLS_PER_SLOT
SlotIdRoundedUp(symbol_index) == (symbol_index + SYMBOLS_PER_SLOT - 1) \div SYMBOLS_PER_SLOT

SlotId(symbol_index) == symbol_index \div SYMBOLS_PER_SLOT

\* the order of sort_values(["cell_id", "symbol_index"])
SymbolRowBefore(r, q) ==
    \/ r.cell_id < q.cell_id
    \/ r.cell_id = q.cell_id /\ r.symbol_index < q.symbol_index

RECURSIVE InsertSymbolRow(_, _)
InsertSymbolRow(sorted, r) ==
    IF sorted = <<>> THEN <<r>>
    ELSE IF SymbolRowBefore(r, Head(sorted))
         THEN <<r>> \o sorted
         ELSE <<Head(sorted)>> \o InsertSymbolRow(Tail(sorted), r)

\* data.sort_values(["cell_id", "symbol_index"]).reset_index(drop=True)
RECURSIVE SortSymbolRows(_)
SortSymbolRows(frame) ==
    IF frame = <<>> THEN <<>>
    ELSE InsertSymbolRow(SortSymbolRows(SubSeq(frame, 1, Len(frame) - 1)),
                         frame[Len(frame)])

\* data["slot_id"] = ...
WithSlotId(data) ==
    [i \in 1..Len(data) |->
        [cell_id |-> data[i].cell_id,
         symbol_index |-> data[i].symbol_index,
         throughput_bits |-> data[i].throughput_bits,
         slot_id |-> SlotId(data[i].symbol_index)]]

\* the group keys of groupby(["cell_id", "slot_id"])
SlotGroups(data) == {<<data[i].cell_id, data[i].slot_id>> : i \in 1..Len(data)}

\* agg(slot_throughput_bits=("throughput_bits", "sum")) of one group
RECURSIVE SlotThroughputFirst(_, _)
SlotThroughputFirst(data, group) ==
    IF data = <<>> THEN 0
    ELSE IF <<Head(data).cell_id, Head(data).slot_id>> = group
         THEN Head(data).throughput_bits
         ELSE SlotThroughputFirst(Tail(data), group)

RECURSIVE SlotThroughput(_, _)
SlotThroughput(data, group) ==
    IF data = <<>> THEN 0
    ELSE (IF <<Head(data).cell_id, Head(data).slot_id>> = group
          THEN Head(data).throughput_bits ELSE 0)
         + SlotThroughput(Tail(data), group)

\* the groups in the order of sort_values(["cell_id", "slot_id"])
RECURSIVE SortedSlotGroups(_)
SortedSlotGroups(groups) ==
    IF groups = {} THEN <<>>
    ELSE LET first == CHOOSE g \in groups : \A h \in groups :
                          \/ g[1] < h[1]
                          \/ g[1] = h[1] /\ g[2] <= h[2]
         IN  <<first>> \o SortedSlotGroups(groups \ {first})

\* convert_symbols_to_slots
ConvertSymbolsToSlots(frame) ==
    LET data == WithSlotId(SortSymbolRows(frame))
        groups == SortedSlotGroups(SlotGroups(data))
    IN  [i \in 1..Len(groups) |->
            [slot_id |-> groups[i][2],
             cell_id |-> groups[i][1],
             slot_throughput_bits |-> SlotThroughput(data, groups[i])]]

(***************************************************************************)
(* Inputs of convert_symbols_to_slots                                      *)
(***************************************************************************)
SlotCells == 1..MaxSlotCells

SlotIds == 0..MaxSlot

\* the first and the last symbol of every slot
BoundarySymbolIndexes ==
    {slot * SYMBOLS_PER_SLOT + offset : slot \in SlotIds, offset \in {0, SYMBOLS_PER_SLOT - 1}}

\* traffic of one symbol or slot, in bits
Bits == {1, 2}

SymbolRecords ==
    [cell_id : SlotCells, symbol_index : BoundarySymbolIndexes, throughput_bits : Bits]

\* the contiguous trace of one cell: symbols 0 .. length-1
ContiguousTrace(cell, length) ==
    [i \in 1..length |->
        [cell_id |-> cell, symbol_index |-> i - 1, throughput_bits |-> 1 + ((i - 1) % 3)]]

(***************************************************************************)
(* Specification of the slot conversion stage                              *)
(***************************************************************************)
InitSlots ==
    /\ pc = "slots"
    /\ EstimatorIdle
    /\ RerunIdle
    /\ StreamIdle
    /\ \/ \E n \in 0..MaxSymbolRows : df \in [1..n -> SymbolRecords]
       \/ \E cell \in SlotCells : \E length \in 1..MaxTraceLen :
             df = ContiguousTrace(cell, length)
    /\ result = <<>>
    /\ correlation_matrix = EmptyDict
    /\ threshold = DefaultThreshold
    /\ cell_to_link = EmptyDict
    /\ slot_df = <<>>
    /\ topology = EmptyDict
    /\ link_traffic = EmptyTable

ConvertSymbolsToSlotsCall ==
    /\ pc = "slots"
    /\ slot_df' = ConvertSymbolsToSlots(df)
    /\ pc' = "slots_done"
    /\ UNCHANGED <<estimatorVars, rerunVars, streamVars>>
    /\ UNCHANGED <<df, result, correlation_matrix, threshold, cell_to_link, topology,
                   link_traffic>>

NextSlots == ConvertSymbolsToSlotsCall

SpecSlots == InitSlots /\ [][NextSlots]_vars

(***************************************************************************)
(* link_aggregation.py: aggregate_slot_traffic_by_link                     *)
(***************************************************************************)
\* "Unknown_Link"
UnknownAsFirstLink == LinkLabel(1)

UnknownLink == <<85, 110, 107, 110, 111, 119, 110, 95, 76, 105, 110, 107>>

\* "_bits"
BitsSuffix == <<95, 98, 105, 116, 115>>

\* Python's < on str: by character code, a proper prefix first
RECURSIVE StrLess(_, _)
StrLess(a, b) ==
    IF b = <<>> THEN FALSE
    ELSE IF a = <<>> THEN TRUE
    ELSE IF Head(a) # Head(b) THEN Head(a) < Head(b)
    ELSE StrLess(Tail(a), Tail(b))

\* sorted(...) of a set of distinct strings
RECURSIVE SortedStringsDescending(_)
SortedStringsDescending(names) ==
    IF names = {} THEN <<>>
    ELSE LET first == CHOOSE a \in names : \A b \in names \ {a} : StrLess(b, a)
         IN  <<first>> \o SortedStringsDescending(names \ {first})

RECURSIVE SortedStrings(_)
SortedStrings(names) ==
    IF names = {} THEN <<>>
    ELSE LET first == CHOOSE a \in names : \A b \in names \ {a} : StrLess(a, b)
         IN  <<first>> \o SortedStrings(names \ {first})

\* a set of integers in ascending order (the index of the pivot)
RECURSIVE SortedInts(_)
SortedInts(S) ==
    IF S = {} THEN <<>> ELSE <<Min(S)>> \o SortedInts(S \ {Min(S)})

\* data["cell_id"].map(topology).fillna("Unknown_Link"), row by row; a
\* row whose link_id were left missing would fall out of the groupby
WithLinkIdDroppingUnknown(frame, topo) ==
    LET known == SelectSeq(frame, LAMBDA r : r.cell_id \in DOMAIN topo)
    IN  [i \in 1..Len(known) |->
            [slot_id |-> known[i].slot_id,
             cell_id |-> known[i].cell_id,
             slot_throughput_bits |-> known[i].slot_throughput_bits,
             link_id |-> topo[known[i].cell_id]]]

WithLinkId(frame, topo) ==
    [i \in 1..Len(frame) |->
        [slot_id |-> frame[i].slot_id,
         cell_id |-> frame[i].cell_id,
         slot_throughput_bits |-> frame[i].slot_throughput_bits,
         link_id |-> IF frame[i].cell_id \in DOMAIN topo
                     THEN topo[frame[i].cell_id] ELSE UnknownLink]]

\* the group keys of groupby(["slot_id", "link_id"])
LinkGroups(data) == {<<data[i].slot_id, data[i].link_id>> : i \in 1..Len(data)}

\* agg(link_throughput_bits=("slot_throughput_bits", "sum")) of one group
RECURSIVE LinkThroughput(_, _)
LinkThroughput(data, group) ==
    IF data = <<>> THEN 0
    ELSE (IF <<Head(data).slot_id, Head(data).link_id>> = group
          THEN Head(data).slot_throughput_bits ELSE 0)
         + LinkThroughput(Tail(data), group)

\* one row of link_traffic.pivot(index="slot_id", columns="link_id", ...):
\* a value for the links that have a group in the slot, the others missing
PivotRow(data, slot_id) ==
    [link_id \in {g[2] : g \in {h \in LinkGroups(data) : h[1] = slot_id}} |->
        LinkThroughput(data, <<slot_id, link_id>>)]

\* .fillna(0) over the columns link_ids
FillNaSkipped(row, link_ids) == row

FillNa(row, link_ids) ==
    [link_id \in link_ids |-> IF link_id \in DOMAIN row THEN row[link_id] ELSE 0]

\* f"{col}_bits"
ColumnName(link_id) == link_id \o BitsSuffix

\* aggregate_slot_traffic_by_link: the wide table, its link columns in the
\* order of sorted(...) and its rows in the order of the pivot's index
AggregateSlotTrafficByLink(frame, topo) ==
    LET data == WithLinkId(frame, topo)
        slot_ids == SortedInts({g[1] : g \in LinkGroups(data)})
        link_ids == {g[2] : g \in LinkGroups(data)}
    IN  [columns |-> SortedStrings({ColumnName(link_id) : link_id \in link_ids}),
         rows |-> [k \in 1..Len(slot_ids) |->
                     LET filled == FillNa(PivotRow(data, slot_ids[k]), link_ids)
                     IN  [slot_id |-> slot_ids[k],
                          cells |-> [name \in {ColumnName(link_id) : link_id \in DOMAIN filled} |->
                                        filled[CHOOSE link_id \in DOMAIN filled :
                                                   ColumnName(link_id) = name]]]]]

(***************************************************************************)
(* Inputs of aggregate_slot_traffic_by_link                                *)
(***************************************************************************)
SlotRecords == [slot_id : SlotIds, cell_id : SlotCells, slot_throughput_bits : Bits]

\* link labels of a topology; Link_1 is a prefix of Link_10
LinkLabels == {LinkLabel(1), LinkLabel(2), LinkLabel(10)}

(***************************************************************************)
(* Specification of the link aggregation stage                             *)
(***************************************************************************)
InitLinks ==
    /\ pc = "links"
    /\ EstimatorIdle
    /\ RerunIdle
    /\ StreamIdle
    /\ df = <<>>
    /\ result = <<>>
    /\ correlation_matrix = EmptyDict
    /\ threshold = DefaultThreshold
    /\ cell_to_link = EmptyDict
    /\ \E n \in 0..MaxSlotRows : slot_df \in [1..n -> SlotRecords]
    /\ \E known \in SUBSET SlotCells : topology \in [known -> LinkLabels]
    /\ link_traffic = EmptyTable

AggregateSlotTrafficByLinkCall ==
    /\ pc = "links"
    /\ link_traffic' = AggregateSlotTrafficByLink(slot_df, topology)
    /\ pc' = "links_done"
    /\ UNCHANGED <<estimatorVars, rerunVars, streamVars>>
    /\ UNCHANGED <<df, result, correlation_matrix, threshold, cell_to_link, slot_df,
                   topology>>

NextLinks == AggregateSlotTrafficByLinkCall

SpecLinks == InitLinks /\ [][NextLinks]_vars

(***************************************************************************)
(* capacity_estimation.py: simulate_buffer                                 *)
(*                                                                         *)
(* Capacities, buffer sizes and occupancies are fractions of a bit.  They  *)
(* are kept exactly, as whole numbers of ticks: for a trace of n slots a   *)
(* bit is TicksPerBit(n) ticks, fine enough for the buffer ratio           *)
(* buffer_symbols / 14, for half the mean of n values and for the          *)
(* halvings of the search.  The doubles of the code differ from the exact  *)
(* values by rounding errors that decide a comparison only when its two    *)
(* sides are exactly equal; inputs on which that happens (MeetsTie) are    *)
(* left out of the initial states.                                         *)
(***************************************************************************)
Min2(a, b) == IF a <= b THEN a ELSE b

Max2(a, b) == IF a >= b THEN a ELSE b

\* len(trace) * 2 * SYMBOLS_PER_SLOT * 2^10: the halvings of the search
\* stop at a width of 0.001 * max(trace), which needs at most 10 of them
TicksPerBit(n) == SYMBOLS_PER_SLOT * 2 * n * 1024

\* a trace of whole bits, in ticks
InTicks(traffic) == [i \in 1..Len(traffic) |-> traffic[i] * TicksPerBit(Len(traffic))]

\* a variant that takes a whole slot of capacity as the buffer
BufferSizeBitsWholeSlot(capacity, symbols) == capacity

\* buffer_size_bits = capacity_bits_per_slot * (buffer_symbols / SYMBOLS_PER_SLOT)
BufferSizeBits(capacity, symbols) == (capacity * symbols) \div SYMBOLS_PER_SLOT

\* if remaining > buffer_size_bits
Overflows(remaining, buffer_size_bits) == remaining > buffer_size_bits

\* buffer_occupancy after the slot: clipped to the buffer on overflow
NextOccupancyUnclipped(remaining, buffer_size_bits) == remaining

NextOccupancy(remaining, buffer_size_bits) ==
    IF Overflows(remaining, buffer_size_bits) THEN buffer_size_bits ELSE remaining

\* one pass of the loop body over the state of the loop
SlotStep(state, slot_traffic, capacity, buffer_size_bits) ==
    LET total_bits == state.buffer_occupancy + slot_traffic
        transmitted == Min2(total_bits, capacity)
        remaining == total_bits - transmitted
        occupancy == NextOccupancy(remaining, buffer_size_bits)
    IN  [buffer_occupancy |-> occupancy,
         loss_slots |-> IF Overflows(remaining, buffer_size_bits)
                        THEN state.loss_slots + 1 ELSE state.loss_slots,
         max_buffer_usage |-> Max2(state.max_buffer_usage, occupancy)]

\* buffer_occupancy = 0.0, loss_slots = 0, max_buffer_usage = 0.0
LoopStart == [buffer_occupancy |-> 0, loss_slots |-> 0, max_buffer_usage |-> 0]

\* for slot_traffic in traffic_per_slot
RECURSIVE RunSlots(_, _, _, _)
RunSlots(state, traffic, capacity, buffer_size_bits) ==
    IF traffic = <<>> THEN state
    ELSE RunSlots(SlotStep(state, Head(traffic), capacity, buffer_size_bits),
                  Tail(traffic), capacity, buffer_size_bits)

\* loss_slots / total_slots if total_slots > 0 else 0.0, as a fraction
\* <<numerator, denominator>>
LossRatio(losses, total_slots) ==
    IF total_slots > 0 THEN <<losses, total_slots>> ELSE <<0, 1>>

\* the dictionary returned by simulate_buffer
SimulationResult(state, total_slots, buffer_size_bits) ==
    [total_slots |-> total_slots,
     loss_slots |-> state.loss_slots,
     loss_ratio |-> LossRatio(state.loss_slots, total_slots),
     max_buffer_usage |-> state.max_buffer_usage,
     buffer_size_bits |-> buffer_size_bits]

\* simulate_buffer; traffic and capacity in ticks
SimulateBuffer(traffic, capacity, symbols) ==
    LET buffer_size_bits == BufferSizeBits(capacity, symbols)
    IN  SimulationResult(RunSlots(LoopStart, traffic, capacity, buffer_size_bits),
                         Len(traffic), buffer_size_bits)

\* a comparison of the loop has two exactly equal sides of which one is a
\* rounded double: remaining against a non-zero buffer size, or, for a
\* buffer of size 0, total_bits against the capacity
RECURSIVE MeetsTie(_, _, _, _)
MeetsTie(occupancy, traffic, capacity, buffer_size_bits) ==
    IF traffic = <<>> THEN FALSE
    ELSE LET total_bits == occupancy + Head(traffic)
             remaining == total_bits - Min2(total_bits, capacity)
         IN  \/ remaining = buffer_size_bits /\ buffer_size_bits > 0
             \/ buffer_size_bits = 0 /\ total_bits = capacity /\ capacity > 0
             \/ MeetsTie(NextOccupancy(remaining, buffer_size_bits), Tail(traffic),
                         capacity, buffer_size_bits)

(***************************************************************************)
(* Inputs of simulate_buffer                                               *)
(***************************************************************************)
BufferSlots == 0..MaxBufferSlots

\* bits of a slot; [10, 10, 40, 10, 10] is the worked example of the
\* documentation of the buffer
BufferTraffic == {0, 10, 40}

\* capacities under test, in bits per slot
Capacities == {0, 5, 15, 40}

DefaultBufferSymbols == 4

BufferSymbols == {0, DefaultBufferSymbols}

(***************************************************************************)
(* Specification of simulate_buffer, one action per slot of the loop       *)
(***************************************************************************)
\* the stages before the estimators are not part of the run
StagesIdle ==
    /\ df = <<>>
    /\ result = <<>>
    /\ correlation_matrix = EmptyDict
    /\ threshold = DefaultThreshold
    /\ cell_to_link = EmptyDict
    /\ slot_df = <<>>
    /\ topology = EmptyDict

stageVars == <<df, result, correlation_matrix, threshold, cell_to_link, slot_df,
               topology>>

InitBuffer ==
    /\ pc = "simulate"
    /\ StagesIdle
    /\ RerunIdle
    /\ StreamIdle
    /\ link_traffic = EmptyTable
    /\ \E n \in BufferSlots : traffic_per_slot \in [1..n -> BufferTraffic]
    /\ \E c \in Capacities :
          capacity_bits_per_slot = c * TicksPerBit(Len(traffic_per_slot))
    /\ buffer_symbols \in BufferSymbols
    /\ ~MeetsTie(0, InTicks(traffic_per_slot), capacity_bits_per_slot,
                 BufferSizeBits(capacity_bits_per_slot, buffer_symbols))
    /\ loss_tolerance = 0
    /\ slot_index = 0
    /\ buffer_occupancy = LoopStart.buffer_occupancy
    /\ loss_slots = LoopStart.loss_slots
    /\ max_buffer_usage = LoopStart.max_buffer_usage
    /\ min_capacity = 0
    /\ max_capacity = 0
    /\ iterations = 0
    /\ returned = <<>>
    /\ capacity_no_buffer = EmptyDict
    /\ capacity_with_buffer = EmptyDict

\* the state of the loop held by the variables
LoopState ==
    [buffer_occupancy |-> buffer_occupancy, loss_slots |-> loss_slots,
     max_buffer_usage |-> max_buffer_usage]

\* the loop body for the next slot of the trace
SimulateSlot ==
    /\ pc = "simulate"
    /\ slot_index < Len(traffic_per_slot)
    /\ LET next == SlotStep(LoopState, InTicks(traffic_per_slot)[slot_index + 1],
                            capacity_bits_per_slot,
                            BufferSizeBits(capacity_bits_per_slot, buffer_symbols))
       IN  /\ buffer_occupancy' = next.buffer_occupancy
           /\ loss_slots' = next.loss_slots
           /\ max_buffer_usage' = next.max_buffer_usage
    /\ slot_index' = slot_index + 1
    /\ UNCHANGED <<pc, stageVars, rerunVars, streamVars, link_traffic, traffic_per_slot, capacity_bits_per_slot,
                   buffer_symbols, loss_tolerance, min_capacity, max_capacity,
                   iterations, returned, capacity_no_buffer, capacity_with_buffer>>

\* the trace is consumed: return the dictionary
SimulateReturn ==
    /\ pc = "simulate"
    /\ slot_index = Len(traffic_per_slot)
    /\ returned' = SimulationResult(LoopState, Len(traffic_per_slot),
                                    BufferSizeBits(capacity_bits_per_slot, buffer_symbols))
    /\ pc' = "simulate_done"
    /\ UNCHANGED <<stageVars, rerunVars, streamVars, link_traffic, traffic_per_slot, capacity_bits_per_slot,
                   buffer_symbols, loss_tolerance, slot_index, buffer_occupancy,
                   loss_slots, max_buffer_usage, min_capacity, max_capacity,
                   iterations, capacity_no_buffer, capacity_with_buffer>>

NextBuffer == SimulateSlot \/ SimulateReturn

SpecBuffer == InitBuffer /\ [][NextBuffer]_vars

(***************************************************************************)
(* capacity_estimation.py: find_minimum_capacity                           *)
(***************************************************************************)
\* max(traffic_per_slot)
RECURSIVE MaxOf(_)
MaxOf(values) ==
    IF Len(values) = 1 THEN Head(values) ELSE Max2(Head(values), MaxOf(Tail(values)))

\* sum(traffic_per_slot)
RECURSIVE SumOf(_)
SumOf(values) == IF values = <<>> THEN 0 ELSE Head(values) + SumOf(Tail(values))

\* min_capacity before the loop: max(mean * 0.5, 1.0), in ticks
LowerBoundNoFloor(traffic) == SumOf(traffic) * SYMBOLS_PER_SLOT * 1024

LowerBound(traffic) ==
    Max2(SumOf(traffic) * SYMBOLS_PER_SLOT * 1024, TicksPerBit(Len(traffic)))

\* max_capacity before the loop: max(traffic_per_slot), in ticks
UpperBoundSum(traffic) == SumOf(traffic) * TicksPerBit(Len(traffic))

UpperBound(traffic) == MaxOf(traffic) * TicksPerBit(Len(traffic))

\* precision = max_capacity * 0.001; a whole number of ticks exceeds it
\* exactly when it exceeds its integer part
Precision(traffic) == UpperBound(traffic) \div 1000

MaxIterations == 100

\* a variant that leaves the loop at ten times the precision
LoopContinuesCoarse(lo, hi, done, precision) ==
    (hi - lo) > 10 * precision /\ done < MaxIterations

\* the condition of the while loop
LoopContinues(lo, hi, done, precision) ==
    (hi - lo) > precision /\ done < MaxIterations

\* result["loss_ratio"] <= loss_tolerance, the tolerance in 1/100
WithinTolerance(loss_ratio, tolerance) ==
    100 * loss_ratio[1] <= tolerance * loss_ratio[2]

\* one iteration of the loop: the new <<min_capacity, max_capacity>>
SearchStepSwapped(traffic, symbols, tolerance, lo, hi) ==
    LET mid_capacity == (lo + hi) \div 2
        sim == SimulateBuffer(traffic, mid_capacity, symbols)
    IN  IF WithinTolerance(sim.loss_ratio, tolerance)
        THEN <<mid_capacity, hi>> ELSE <<lo, mid_capacity>>

SearchStep(traffic, symbols, tolerance, lo, hi) ==
    LET mid_capacity == (lo + hi) \div 2
        sim == SimulateBuffer(traffic, mid_capacity, symbols)
    IN  IF WithinTolerance(sim.loss_ratio, tolerance)
        THEN <<lo, mid_capacity>> ELSE <<mid_capacity, hi>>

\* return max_capacity
ReturnedLowerEnd(lo, hi) == lo

\* a variant that returns the middle of the final interval
ReturnedMidpoint(lo, hi) == (lo + hi) \div 2

ReturnedCapacity(lo, hi) == hi

\* the while loop
RECURSIVE SearchLoop(_, _, _, _, _, _, _)
SearchLoop(traffic, symbols, tolerance, lo, hi, done, precision) ==
    IF LoopContinues(lo, hi, done, precision)
    THEN LET next == SearchStep(traffic, symbols, tolerance, lo, hi)
         IN  SearchLoop(traffic, symbols, tolerance, next[1], next[2], done + 1, precision)
    ELSE ReturnedCapacity(lo, hi)

\* find_minimum_capacity of a trace of whole bits: the capacity in ticks
FindMinimumCapacity(traffic, symbols, tolerance) ==
    IF traffic = <<>> THEN 0
    ELSE SearchLoop(InTicks(traffic), symbols, tolerance, LowerBound(traffic),
                    UpperBound(traffic), 0, Precision(traffic))

\* some simulation run by the search meets a tie
RECURSIVE SearchMeetsTie(_, _, _, _, _, _, _)
SearchMeetsTie(traffic, symbols, tolerance, lo, hi, done, precision) ==
    /\ LoopContinues(lo, hi, done, precision)
    /\ LET mid_capacity == (lo + hi) \div 2
           next == SearchStep(traffic, symbols, tolerance, lo, hi)
       IN  \/ MeetsTie(0, traffic, mid_capacity, BufferSizeBits(mid_capacity, symbols))
           \/ SearchMeetsTie(traffic, symbols, tolerance, next[1], next[2], done + 1,
                             precision)

\* the doubles of the code and the exact values take the same branches
ExactSearch(traffic, symbols, tolerance) ==
    IF traffic = <<>> THEN TRUE
    ELSE ~SearchMeetsTie(InTicks(traffic), symbols, tolerance, LowerBound(traffic),
                         UpperBound(traffic), 0, Precision(traffic))

(***************************************************************************)
(* Inputs of find_minimum_capacity                                         *)
(***************************************************************************)
SearchSlots == 0..MaxSearchSlots

\* bits of a slot
Traffic == {0, 1, 2, 10}

DefaultLossTolerance == 1

\* loss tolerances in 1/100: none, the default 0.01, a quarter, a half, all
Tolerances == {0, DefaultLossTolerance, 25, 50, 100}

(***************************************************************************)
(* Specification of find_minimum_capacity, one action per iteration        *)
(***************************************************************************)
InitSearch ==
    /\ pc = "search"
    /\ StagesIdle
    /\ RerunIdle
    /\ StreamIdle
    /\ link_traffic = EmptyTable
    /\ \E n \in SearchSlots : traffic_per_slot \in [1..n -> Traffic]
    /\ buffer_symbols \in BufferSymbols
    /\ loss_tolerance \in Tolerances
    /\ \A tolerance \in Tolerances :
          ExactSearch(traffic_per_slot, buffer_symbols, tolerance)
    /\ capacity_bits_per_slot = 0
    /\ slot_index = 0
    /\ buffer_occupancy = 0
    /\ loss_slots = 0
    /\ max_buffer_usage = 0
    /\ min_capacity = 0
    /\ max_capacity = 0
    /\ iterations = 0
    /\ returned = <<>>
    /\ capacity_no_buffer = EmptyDict
    /\ capacity_with_buffer = EmptyDict

\* an empty trace returns 0.0
ReturnEmpty ==
    /\ pc = "search"
    /\ traffic_per_slot = <<>>
    /\ returned' = 0
    /\ pc' = "search_done"
    /\ UNCHANGED <<stageVars, rerunVars, streamVars, link_traffic, traffic_per_slot, capacity_bits_per_slot,
                   buffer_symbols, loss_tolerance, slot_index, buffer_occupancy,
                   loss_slots, max_buffer_usage, min_capacity, max_capacity,
                   iterations, capacity_no_buffer, capacity_with_buffer>>

\* the bounds of the search are set up
EnterLoop ==
    /\ pc = "search"
    /\ traffic_per_slot # <<>>
    /\ min_capacity' = LowerBound(traffic_per_slot)
    /\ max_capacity' = UpperBound(traffic_per_slot)
    /\ iterations' = 0
    /\ pc' = "search_loop"
    /\ UNCHANGED <<stageVars, rerunVars, streamVars, link_traffic, traffic_per_slot, capacity_bits_per_slot,
                   buffer_symbols, loss_tolerance, slot_index, buffer_occupancy,
                   loss_slots, max_buffer_usage, returned, capacity_no_buffer,
                   capacity_with_buffer>>

\* one iteration: simulate at the midpoint and move one end to it
SearchIteration ==
    /\ pc = "search_loop"
    /\ LoopContinues(min_capacity, max_capacity, iterations, Precision(traffic_per_slot))
    /\ LET next == SearchStep(InTicks(traffic_per_slot), buffer_symbols, loss_tolerance,
                              min_capacity, max_capacity)
       IN  /\ min_capacity' = next[1]
           /\ max_capacity' = next[2]
    /\ iterations' = iterations + 1
    /\ UNCHANGED <<pc, stageVars, rerunVars, streamVars, link_traffic, traffic_per_slot, capacity_bits_per_slot,
                   buffer_symbols, loss_tolerance, slot_index, buffer_occupancy,
                   loss_slots, max_buffer_usage, returned, capacity_no_buffer,
                   capacity_with_buffer>>

\* the loop is left: return max_capacity
SearchReturn ==
    /\ pc = "search_loop"
    /\ ~LoopContinues(min_capacity, max_capacity, iterations, Precision(traffic_per_slot))
    /\ returned' = ReturnedCapacity(min_capacity, max_capacity)
    /\ pc' = "search_done"
    /\ UNCHANGED <<stageVars, rerunVars, streamVars, link_traffic, traffic_per_slot, capacity_bits_per_slot,
                   buffer_symbols, loss_tolerance, slot_index, buffer_occupancy,
                   loss_slots, max_buffer_usage, min_capacity, max_capacity,
                   iterations, capacity_no_buffer, capacity_with_buffer>>

NextSearch == ReturnEmpty \/ EnterLoop \/ SearchIteration \/ SearchReturn

SpecSearch == InitSearch /\ [][NextSearch]_vars

(***************************************************************************)
(* capacity_estimation.py: estimate_capacity_no_buffer and                 *)
(* estimate_capacity_with_buffer                                           *)
(***************************************************************************)
\* a variant of the link column filter that keeps every column but slot_id
\* (the filter of link_aggregation.py, line 95)
NotSlotIdColumn(name) == name # <<115, 108, 111, 116, 95, 105, 100>>

\* col.endswith("_bits")
EndsWithBits(name) ==
    /\ Len(name) >= Len(BitsSuffix)
    /\ SubSeq(name, Len(name) - Len(BitsSuffix) + 1, Len(name)) = BitsSuffix

\* col.replace("_bits", ""): every occurrence is removed, left to right
RECURSIVE RemoveBits(_)
RemoveBits(name) ==
    IF name = <<>> THEN <<>>
    ELSE IF /\ Len(name) >= Len(BitsSuffix)
            /\ SubSeq(name, 1, Len(BitsSuffix)) = BitsSuffix
         THEN RemoveBits(SubSeq(name, Len(BitsSuffix) + 1, Len(name)))
         ELSE <<Head(name)>> \o RemoveBits(Tail(name))

\* link_columns: the columns that end with "_bits", in the table's order
LinkColumnsOf(table) == SelectSeq(table.columns, EndsWithBits)

\* a variant that reads the traffic of the whole row, all columns added up
RECURSIVE RowTotal(_, _)
RowTotal(cells, names) ==
    IF names = {} THEN 0
    ELSE LET name == CHOOSE n \in names : TRUE
         IN  cells[name] + RowTotal(cells, names \ {name})

ColumnValuesOfRow(rows, name) ==
    [k \in 1..Len(rows) |-> RowTotal(rows[k].cells, DOMAIN rows[k].cells)]

\* the values of a column, row by row
ColumnValues(rows, name) == [k \in 1..Len(rows) |-> rows[k].cells[name]]

\* link_traffic_df[col].max(); of a column without rows it is NaN
ColumnFirst(values) == IF values = <<>> THEN "nan" ELSE Head(values)

ColumnMax(values) == IF values = <<>> THEN "nan" ELSE MaxOf(values)

\* the dictionary filled by a loop over link_columns with the value
\* value_of[col] of each column: a later column overwrites an earlier one
\* of the same link name
CapacityDict(link_columns, value_of) ==
    [link_name \in {RemoveBits(link_columns[i]) : i \in 1..Len(link_columns)} |->
        LET last == CHOOSE i \in 1..Len(link_columns) :
                        /\ RemoveBits(link_columns[i]) = link_name
                        /\ \A j \in 1..Len(link_columns) :
                               RemoveBits(link_columns[j]) = link_name => j <= i
        IN  value_of[link_columns[last]]]

\* estimate_capacity_no_buffer of a table with link columns, in bits
EstimateCapacityNoBuffer(table) ==
    CapacityDict(LinkColumnsOf(table),
                 [col \in SeqToSet(LinkColumnsOf(table)) |->
                     ColumnMax(ColumnValues(table.rows, col))])

\* a variant that keeps the rows in the order of the table
RowsAsGiven(rows) == rows

\* link_traffic_df.sort_values("slot_id")
RECURSIVE InsertBySlotId(_, _)
InsertBySlotId(sorted, row) ==
    IF sorted = <<>> THEN <<row>>
    ELSE IF row.slot_id < Head(sorted).slot_id THEN <<row>> \o sorted
    ELSE <<Head(sorted)>> \o InsertBySlotId(Tail(sorted), row)

RECURSIVE SortBySlotId(_)
SortBySlotId(rows) ==
    IF rows = <<>> THEN <<>>
    ELSE InsertBySlotId(SortBySlotId(SubSeq(rows, 1, Len(rows) - 1)), rows[Len(rows)])

\* estimate_capacity_with_buffer of a table with link columns, in ticks
EstimateCapacityWithBuffer(table, symbols, tolerance) ==
    LET df_sorted == SortBySlotId(table.rows)
    IN  CapacityDict(LinkColumnsOf(table),
                     [col \in SeqToSet(LinkColumnsOf(table)) |->
                         FindMinimumCapacity(ColumnValues(df_sorted, col),
                                             symbols, tolerance)])

(***************************************************************************)
(* Inputs of the estimators                                                *)
(***************************************************************************)
\* bits of a link in a slot
LinkTraffic == {0, 1, 2}

\* the link columns of a table: none, Link_1_bits, Link_2_bits or both
ColumnSets == SUBSET {ColumnName(LinkLabel(1)), ColumnName(LinkLabel(2))}

\* loss tolerances of a run, in 1/100
RunTolerances == {DefaultLossTolerance, 50}

\* a table of the columns names whose k-th row has slot id slot_ids[k]
\* and the values cells[k]
TableOf(names, slot_ids, cells) ==
    [columns |-> SortedStrings(names),
     rows |-> [k \in 1..Len(slot_ids) |-> [slot_id |-> slot_ids[k], cells |-> cells[k]]]]

(***************************************************************************)
(* Specification of the estimators: no-buffer, then buffer-aware           *)
(* (demo_eval2.py, phase3_capacity_estimation)                             *)
(***************************************************************************)
InitCapacity ==
    /\ pc = "capacity"
    /\ StagesIdle
    /\ RerunIdle
    /\ StreamIdle
    /\ \E n \in 0..(MaxCapacityRows + 1) : \E names \in ColumnSets :
          /\ n > MaxCapacityRows => Cardinality(names) = 1
          /\ \E slot_ids \in Orderings(0..(n - 1)) :
             \E cells \in [1..n -> [names -> LinkTraffic]] :
                link_traffic = TableOf(names, slot_ids, cells)
    /\ buffer_symbols = DefaultBufferSymbols
    /\ loss_tolerance \in RunTolerances
    /\ \A i \in 1..Len(link_traffic.columns) :
          ExactSearch(ColumnValues(SortBySlotId(link_traffic.rows), link_traffic.columns[i]),
                      buffer_symbols, loss_tolerance)
    /\ traffic_per_slot = <<>>
    /\ capacity_bits_per_slot = 0
    /\ slot_index = 0
    /\ buffer_occupancy = 0
    /\ loss_slots = 0
    /\ max_buffer_usage = 0
    /\ min_capacity = 0
    /\ max_capacity = 0
    /\ iterations = 0
    /\ returned = <<>>
    /\ capacity_no_buffer = EmptyDict
    /\ capacity_with_buffer = EmptyDict

\* no column ends with "_bits": estimate_capacity_no_buffer raises ValueError
EstimateCapacityRaises ==
    /\ pc = "capacity"
    /\ LinkColumnsOf(link_traffic) = <<>>
    /\ pc' = "capacity_error"
    /\ UNCHANGED <<stageVars, rerunVars, streamVars, link_traffic, estimatorVars>>

EstimateCapacityNoBufferCall ==
    /\ pc = "capacity"
    /\ LinkColumnsOf(link_traffic) # <<>>
    /\ capacity_no_buffer' = EstimateCapacityNoBuffer(link_traffic)
    /\ pc' = "capacity_no_buffer_done"
    /\ UNCHANGED <<stageVars, rerunVars, streamVars, link_traffic, traffic_per_slot, capacity_bits_per_slot,
                   buffer_symbols, loss_tolerance, slot_index, buffer_occupancy,
                   loss_slots, max_buffer_usage, min_capacity, max_capacity,
                   iterations, returned, capacity_with_buffer>>

EstimateCapacityWithBufferCall ==
    /\ pc = "capacity_no_buffer_done"
    /\ capacity_with_buffer' =
          EstimateCapacityWithBuffer(link_traffic, buffer_symbols, loss_tolerance)
    /\ pc' = "capacity_done"
    /\ UNCHANGED <<stageVars, rerunVars, streamVars, link_traffic, traffic_per_slot, capacity_bits_per_slot,
                   buffer_symbols, loss_tolerance, slot_index, buffer_occupancy,
                   loss_slots, max_buffer_usage, min_capacity, max_capacity,
                   iterations, returned, capacity_no_buffer>>

NextCapacity ==
    EstimateCapacityRaises \/ EstimateCapacityNoBufferCall \/ EstimateCapacityWithBufferCall

SpecCapacity == InitCapacity /\ [][NextCapacity]_vars

(***************************************************************************)
(* demo_eval2.py: the whole pipeline, run and run again on the same input  *)
(***************************************************************************)
\* phase1_topology_inference: detect_congestion, then
\* compute_congestion_correlation, then infer_topology iterating over its
\* set of cells in cell_order and over its adjacency sets in nbr_order
Phase1(frame, cell_order, nbr_order) ==
    LET df_cong == DetectCongestion(frame).result
        matrix == ComputeCongestionCorrelation(df_cong)
    IN  [df_cong |-> df_cong,
         correlation_matrix |-> matrix,
         topology |-> InferTopology(matrix, DefaultThreshold, cell_order, nbr_order)]

\* phase2_traffic_aggregation: convert_symbols_to_slots, then
\* aggregate_slot_traffic_by_link
Phase2(symbols, topo) ==
    LET slots == ConvertSymbolsToSlots(symbols)
    IN  [slot_df |-> slots, link_traffic |-> AggregateSlotTrafficByLink(slots, topo)]

\* phase3_capacity_estimation: estimate_capacity_no_buffer, then
\* estimate_capacity_with_buffer(buffer_symbols=4, loss_tolerance=0.01)
Phase3(table) ==
    [no_buffer |-> EstimateCapacityNoBuffer(table),
     with_buffer |-> EstimateCapacityWithBuffer(table, DefaultBufferSymbols,
                                                DefaultLossTolerance)]

(***************************************************************************)
(* Inputs of the pipeline                                                  *)
(***************************************************************************)
PipelineCells == 1..MaxPipelineCells

\* sampling instants of the packet statistics
PipelineTimes == {1, 2}

\* the packet statistics: one record per cell and instant, with packet
\* loss at the instants in lossy[cell]
PacketStats(lossy) ==
    [i \in 1..(MaxPipelineCells * Cardinality(PipelineTimes)) |->
        LET cell == ((i - 1) \div Cardinality(PipelineTimes)) + 1
            time == ((i - 1) % Cardinality(PipelineTimes)) + 1
        IN  [timestamp |-> time,
             cell_id |-> cell,
             throughput |-> 100,
             packet_loss |-> IF time \in lossy[cell] THEN 5 ELSE 0]]

\* the symbol-level throughput: symbol 0 of every cell (a link trace of a
\* single slot meets no tie in the search)
SymbolStats(bits) ==
    [i \in 1..MaxPipelineCells |->
        [cell_id |-> i, symbol_index |-> 0, throughput_bits |-> bits[i]]]

(***************************************************************************)
(* Specification of the pipeline and its repetition                        *)
(***************************************************************************)
\* the results of a run that has not happened
NoResults ==
    /\ result = <<>>
    /\ correlation_matrix = EmptyDict
    /\ cell_to_link = EmptyDict
    /\ slot_df = <<>>
    /\ topology = EmptyDict
    /\ link_traffic = EmptyTable
    /\ capacity_no_buffer = EmptyDict
    /\ capacity_with_buffer = EmptyDict
    /\ visit_order = <<>>

InitPipeline ==
    /\ pc = "phase1"
    /\ \E lossy \in [PipelineCells -> SUBSET PipelineTimes] : df = PacketStats(lossy)
    /\ \E bits \in [PipelineCells -> Bits] : symbol_df = SymbolStats(bits)
    /\ threshold = DefaultThreshold
    /\ buffer_symbols = DefaultBufferSymbols
    /\ loss_tolerance = DefaultLossTolerance
    /\ NoResults
    /\ previous = <<>>
    /\ StreamIdle
    /\ traffic_per_slot = <<>>
    /\ capacity_bits_per_slot = 0
    /\ slot_index = 0
    /\ buffer_occupancy = 0
    /\ loss_slots = 0
    /\ max_buffer_usage = 0
    /\ min_capacity = 0
    /\ max_capacity = 0
    /\ iterations = 0
    /\ returned = <<>>

\* the variables no phase writes
pipelineInputs == <<df, symbol_df, threshold, buffer_symbols, loss_tolerance,
                    traffic_per_slot, capacity_bits_per_slot, slot_index,
                    buffer_occupancy, loss_slots, max_buffer_usage, min_capacity,
                    max_capacity, iterations, returned, streamVars>>

Phase1TopologyInference ==
    /\ pc = "phase1"
    /\ \E cell_order \in Orderings(PipelineCells) :
       \E nbr_order \in {cell_order, Reverse(cell_order)} :
          LET run == Phase1(df, cell_order, nbr_order)
          IN  /\ result' = run.df_cong
              /\ correlation_matrix' = run.correlation_matrix
              /\ cell_to_link' = run.topology
              /\ visit_order' = cell_order
    /\ pc' = "phase2"
    /\ UNCHANGED <<pipelineInputs, slot_df, topology, link_traffic, capacity_no_buffer,
                   capacity_with_buffer, previous>>

Phase2TrafficAggregation ==
    /\ pc = "phase2"
    /\ topology' = cell_to_link
    /\ slot_df' = Phase2(symbol_df, cell_to_link).slot_df
    /\ link_traffic' = Phase2(symbol_df, cell_to_link).link_traffic
    /\ pc' = "phase3"
    /\ UNCHANGED <<pipelineInputs, result, correlation_matrix, cell_to_link,
                   capacity_no_buffer, capacity_with_buffer, visit_order, previous>>

Phase3CapacityEstimation ==
    /\ pc = "phase3"
    /\ capacity_no_buffer' = Phase3(link_traffic).no_buffer
    /\ capacity_with_buffer' = Phase3(link_traffic).with_buffer
    /\ pc' = "pipeline_done"
    /\ UNCHANGED <<pipelineInputs, result, correlation_matrix, cell_to_link, slot_df,
                   topology, link_traffic, visit_order, previous>>

\* main() is started again on the unchanged input: the results of the
\* first run are kept aside for comparison
RunAgain ==
    /\ pc = "pipeline_done"
    /\ previous = <<>>
    /\ previous' = [correlation_matrix |-> correlation_matrix,
                    topology |-> cell_to_link,
                    no_buffer |-> capacity_no_buffer,
                    with_buffer |-> capacity_with_buffer,
                    visit_order |-> visit_order]
    /\ result' = <<>>
    /\ correlation_matrix' = EmptyDict
    /\ cell_to_link' = EmptyDict
    /\ slot_df' = <<>>
    /\ topology' = EmptyDict
    /\ link_traffic' = EmptyTable
    /\ capacity_no_buffer' = EmptyDict
    /\ capacity_with_buffer' = EmptyDict
    /\ visit_order' = <<>>
    /\ pc' = "phase1"
    /\ UNCHANGED pipelineInputs

NextPipeline ==
    \/ Phase1TopologyInference
    \/ Phase2TrafficAggregation
    \/ Phase3CapacityEstimation
    \/ RunAgain

SpecPipeline == InitPipeline /\ [][NextPipeline]_vars

(***************************************************************************)
(* capacity_estimation.py: simulate_buffer in floating point               *)
(*                                                                         *)
(* The quantities of simulate_buffer are Python floats: binary floating    *)
(* point in which every operation returns the representable number         *)
(* nearest to the exact result, a tie going to the even mantissa.  Here a  *)
(* number keeps MantissaBits significant bits (a double keeps 53) and is   *)
(* counted in units of 2^-FractionBits.                                    *)
(***************************************************************************)
RECURSIVE Pow2(_)
Pow2(n) == IF n = 0 THEN 1 ELSE 2 * Pow2(n - 1)

\* the number 1.0
FloatUnit == Pow2(FractionBits)

\* the low bits of q that do not fit the mantissa
RECURSIVE DroppedBits(_)
DroppedBits(q) == IF q < Pow2(MantissaBits) THEN 0 ELSE 1 + DroppedBits(q \div 2)

\* the float nearest to num / den
RoundDiv(num, den) ==
    LET spacing == den * Pow2(DroppedBits(num \div den))
        mantissa == num \div spacing
        rest == num % spacing
        up == \/ 2 * rest > spacing
              \/ 2 * rest = spacing /\ mantissa % 2 = 1
    IN  (IF up THEN mantissa + 1 ELSE mantissa) * (spacing \div den)

\* the float nearest to x
Float(x) == RoundDiv(x, 1)

\* buffer_size_bits = capacity_bits_per_slot * (buffer_symbols / SYMBOLS_PER_SLOT):
\* a rounded quotient, then a rounded product
FloatBufferSizeBits(capacity, symbols) ==
    RoundDiv(capacity * RoundDiv(symbols * FloatUnit, SYMBOLS_PER_SLOT), FloatUnit)

\* the loop body: a rounded sum and a rounded difference
FloatSlotStep(state, slot_traffic, capacity, buffer_size_bits) ==
    LET total_bits == Float(state.buffer_occupancy + slot_traffic)
        transmitted == Min2(total_bits, capacity)
        remaining == Float(total_bits - transmitted)
        occupancy == NextOccupancy(remaining, buffer_size_bits)
    IN  [buffer_occupancy |-> occupancy,
         loss_slots |-> IF Overflows(remaining, buffer_size_bits)
                        THEN state.loss_slots + 1 ELSE state.loss_slots,
         max_buffer_usage |-> Max2(state.max_buffer_usage, occupancy)]

RECURSIVE FloatRunSlots(_, _, _, _)
FloatRunSlots(state, traffic, capacity, buffer_size_bits) ==
    IF traffic = <<>> THEN state
    ELSE FloatRunSlots(FloatSlotStep(state, Head(traffic), capacity, buffer_size_bits),
                       Tail(traffic), capacity, buffer_size_bits)

\* simulate_buffer on floats
FloatSimulateBuffer(traffic, capacity, symbols) ==
    LET buffer_size_bits == FloatBufferSizeBits(capacity, symbols)
    IN  SimulationResult(FloatRunSlots(LoopStart, traffic, capacity, buffer_size_bits),
                         Len(traffic), buffer_size_bits)

(***************************************************************************)
(* Inputs: floats near 1 and 2, and a burst                                *)
(***************************************************************************)
\* 0.0, 1.25, 2.5 and 32.0
FloatTraffic ==
    {0, Float((5 * FloatUnit) \div 4), Float((5 * FloatUnit) \div 2), 32 * FloatUnit}

\* 1.0, 1.25, 2.0 and 2.5
FloatCapacities ==
    {FloatUnit, Float((5 * FloatUnit) \div 4), 2 * FloatUnit, Float((5 * FloatUnit) \div 2)}

\* the default buffer and a buffer of two slots
FloatBufferSymbols == {DefaultBufferSymbols, 2 * SYMBOLS_PER_SLOT}

(***************************************************************************)
(* Specification: simulate_buffer called on one trace with a capacity and  *)
(* then with a capacity at least as large (the two calls a search makes    *)
(* for its lower and upper candidates)                                     *)
(***************************************************************************)
InitRounded ==
    /\ pc = "compare"
    /\ StagesIdle
    /\ RerunIdle
    /\ StreamIdle
    /\ link_traffic = EmptyTable
    /\ \E n \in 1..MaxRoundedSlots : traffic_per_slot \in [1..n -> FloatTraffic]
    /\ buffer_symbols \in FloatBufferSymbols
    /\ min_capacity \in FloatCapacities
    /\ max_capacity \in FloatCapacities
    /\ min_capacity <= max_capacity
    /\ capacity_bits_per_slot = 0
    /\ loss_tolerance = 0
    /\ slot_index = 0
    /\ buffer_occupancy = 0
    /\ loss_slots = 0
    /\ max_buffer_usage = 0
    /\ iterations = 0
    /\ returned = <<>>
    /\ capacity_no_buffer = EmptyDict
    /\ capacity_with_buffer = EmptyDict

\* simulate_buffer(traffic_per_slot, min_capacity, buffer_symbols)
SimulateAtLower ==
    /\ pc = "compare"
    /\ returned' = <<FloatSimulateBuffer(traffic_per_slot, min_capacity, buffer_symbols)>>
    /\ pc' = "compare_upper"
    /\ UNCHANGED <<stageVars, rerunVars, streamVars, link_traffic, traffic_per_slot, capacity_bits_per_slot,
                   buffer_symbols, loss_tolerance, slot_index, buffer_occupancy,
                   loss_slots, max_buffer_usage, min_capacity, max_capacity,
                   iterations, capacity_no_buffer, capacity_with_buffer>>

\* simulate_buffer(traffic_per_slot, max_capacity, buffer_symbols)
SimulateAtUpper ==
    /\ pc = "compare_upper"
    /\ returned' = Append(returned,
                          FloatSimulateBuffer(traffic_per_slot, max_capacity, buffer_symbols))
    /\ pc' = "compare_done"
    /\ UNCHANGED <<stageVars, rerunVars, streamVars, link_traffic, traffic_per_slot, capacity_bits_per_slot,
                   buffer_symbols, loss_tolerance, slot_index, buffer_occupancy,
                   loss_slots, max_buffer_usage, min_capacity, max_capacity,
                   iterations, capacity_no_buffer, capacity_with_buffer>>

NextRounded == SimulateAtLower \/ SimulateAtUpper

SpecRounded == InitRounded /\ [][NextRounded]_vars

(***************************************************************************)
(* Schema validation: the check that opens every stage function            *)
(*                                                                         *)
(* A frame is a record of its set of columns and its rows, a row being a   *)
(* function from the columns to values.                                    *)
(***************************************************************************)
\* missing = [col for col in required_columns if col not in df.columns]
MissingColumns(required_columns, columns) ==
    SelectSeq(required_columns, LAMBDA col : col \notin columns)

\* congestion.py: if "packet_loss" not in df.columns
CongestionRequiredColumns == <<"packet_loss">>

\* correlation.py: required_columns
CorrelationRequiredColumns == <<"timestamp", "cell_id", "is_congested">>

\* slot_conversion.py: required_columns
SlotRequiredColumns == <<"cell_id", "symbol_index", "throughput_bits">>

\* link_aggregation.py: required_columns
LinkRequiredColumns == <<"slot_id", "cell_id", "slot_throughput_bits">>

(***************************************************************************)
(* Inputs of the schema checks                                             *)
(***************************************************************************)
\* the columns of the raw traffic data
TrafficColumns == {"timestamp", "cell_id", "throughput", "packet_loss"}

\* a frame of n equal rows over the given columns
FrameOf(columns, n, packet_loss, is_congested) ==
    [columns |-> columns,
     rows |-> [k \in 1..n |->
                 [col \in columns |->
                     IF col = "packet_loss" THEN packet_loss
                     ELSE IF col = "is_congested" THEN is_congested
                     ELSE 1]]]

\* the frames offered to a stage: any subset of the stage's columns and of
\* the columns other, with no row or one
FramesOf(required_columns, other) ==
    {FrameOf(columns, n, packet_loss, is_congested) :
        columns \in SUBSET (SeqToSet(required_columns) \cup other),
        n \in 0..MaxSchemaRows,
        packet_loss \in {0, 5},
        is_congested \in BOOLEAN}

\* the columns of a table offered to the estimators: a link column and a
\* column that does not end with "_bits"
EstimatorColumnSets == SUBSET {ColumnName(LinkLabel(1)), LinkLabel(2)}

(***************************************************************************)
(* Specification of the schema checks: one call of one stage function      *)
(***************************************************************************)
InitSchema ==
    /\ RerunIdle
    /\ StreamIdle
    /\ result = <<>>
    /\ correlation_matrix = EmptyDict
    /\ threshold = DefaultThreshold
    /\ cell_to_link = EmptyDict
    /\ traffic_per_slot = <<>>
    /\ capacity_bits_per_slot = 0
    /\ slot_index = 0
    /\ buffer_occupancy = 0
    /\ loss_slots = 0
    /\ max_buffer_usage = 0
    /\ min_capacity = 0
    /\ max_capacity = 0
    /\ iterations = 0
    /\ returned = <<>>
    /\ capacity_no_buffer = EmptyDict
    /\ capacity_with_buffer = EmptyDict
    /\ \/ /\ pc = "detect_congestion"
          /\ df \in FramesOf(CongestionRequiredColumns, TrafficColumns)
          /\ ("packet_loss" \in df.columns) => df.columns = TrafficColumns
          /\ slot_df = <<>>
          /\ topology = EmptyDict
          /\ link_traffic = EmptyTable
          /\ buffer_symbols = 0
          /\ loss_tolerance = 0
       \/ /\ pc = "compute_congestion_correlation"
          /\ df \in FramesOf(CorrelationRequiredColumns, {"packet_loss"})
          /\ slot_df = <<>>
          /\ topology = EmptyDict
          /\ link_traffic = EmptyTable
          /\ buffer_symbols = 0
          /\ loss_tolerance = 0
       \/ /\ pc = "convert_symbols_to_slots"
          /\ df \in FramesOf(SlotRequiredColumns, {"timestamp"})
          /\ slot_df = <<>>
          /\ topology = EmptyDict
          /\ link_traffic = EmptyTable
          /\ buffer_symbols = 0
          /\ loss_tolerance = 0
       \/ /\ pc = "aggregate_slot_traffic_by_link"
          /\ df = <<>>
          /\ slot_df \in FramesOf(LinkRequiredColumns, {})
          /\ \E known \in SUBSET {1} : topology \in [known -> {LinkLabel(1)}]
          /\ link_traffic = EmptyTable
          /\ buffer_symbols = 0
          /\ loss_tolerance = 0
       \/ /\ pc \in {"estimate_capacity_no_buffer", "estimate_capacity_with_buffer"}
          /\ df = <<>>
          /\ slot_df = <<>>
          /\ topology = EmptyDict
          /\ \E n \in 0..MaxSchemaRows : \E names \in EstimatorColumnSets :
             \E cells \in [1..n -> [names -> LinkTraffic]] :
                link_traffic = TableOf(names, [k \in 1..n |-> k - 1], cells)
          /\ buffer_symbols = DefaultBufferSymbols
          /\ loss_tolerance = DefaultLossTolerance
          /\ \A i \in 1..Len(link_traffic.columns) :
                ExactSearch(ColumnValues(link_traffic.rows, link_traffic.columns[i]),
                            buffer_symbols, loss_tolerance)

\* detect_congestion(df)
DetectCongestionChecked ==
    /\ pc = "detect_congestion"
    /\ IF MissingColumns(CongestionRequiredColumns, df.columns) # <<>>
       THEN /\ pc' = "detect_congestion_raised"
            /\ UNCHANGED result
       ELSE /\ result' = DetectCongestion(df.rows).result
            /\ pc' = "detect_congestion_returned"
    /\ UNCHANGED <<estimatorVars, rerunVars, streamVars>>
    /\ UNCHANGED <<df, correlation_matrix, threshold, cell_to_link, slot_df, topology,
                   link_traffic>>

\* compute_congestion_correlation(df)
ComputeCorrelationChecked ==
    /\ pc = "compute_congestion_correlation"
    /\ IF MissingColumns(CorrelationRequiredColumns, df.columns) # <<>>
       THEN /\ pc' = "compute_congestion_correlation_raised"
            /\ UNCHANGED correlation_matrix
       ELSE /\ correlation_matrix' = ComputeCongestionCorrelation(df.rows)
            /\ pc' = "compute_congestion_correlation_returned"
    /\ UNCHANGED <<estimatorVars, rerunVars, streamVars>>
    /\ UNCHANGED <<df, result, threshold, cell_to_link, slot_df, topology, link_traffic>>

\* convert_symbols_to_slots(df)
ConvertSymbolsToSlotsChecked ==
    /\ pc = "convert_symbols_to_slots"
    /\ IF MissingColumns(SlotRequiredColumns, df.columns) # <<>>
       THEN /\ pc' = "convert_symbols_to_slots_raised"
            /\ UNCHANGED slot_df
       ELSE /\ slot_df' = ConvertSymbolsToSlots(df.rows)
            /\ pc' = "convert_symbols_to_slots_returned"
    /\ UNCHANGED <<estimatorVars, rerunVars, streamVars>>
    /\ UNCHANGED <<df, result, correlation_matrix, threshold, cell_to_link, topology,
                   link_traffic>>

\* aggregate_slot_traffic_by_link(slot_df, topology)
AggregateSlotTrafficByLinkChecked ==
    /\ pc = "aggregate_slot_traffic_by_link"
    /\ IF MissingColumns(LinkRequiredColumns, slot_df.columns) # <<>>
       THEN /\ pc' = "aggregate_slot_traffic_by_link_raised"
            /\ UNCHANGED link_traffic
       ELSE /\ link_traffic' = AggregateSlotTrafficByLink(slot_df.rows, topology)
            /\ pc' = "aggregate_slot_traffic_by_link_returned"
    /\ UNCHANGED <<estimatorVars, rerunVars, streamVars>>
    /\ UNCHANGED <<df, result, correlation_matrix, threshold, cell_to_link, slot_df,
                   topology>>

\* estimate_capacity_no_buffer(link_traffic_df)
EstimateCapacityNoBufferChecked ==
    /\ pc = "estimate_capacity_no_buffer"
    /\ IF LinkColumnsOf(link_traffic) = <<>>
       THEN /\ pc' = "estimate_capacity_no_buffer_raised"
            /\ UNCHANGED capacity_no_buffer
       ELSE /\ capacity_no_buffer' = EstimateCapacityNoBuffer(link_traffic)
            /\ pc' = "estimate_capacity_no_buffer_returned"
    /\ UNCHANGED <<stageVars, rerunVars, streamVars, link_traffic, traffic_per_slot, capacity_bits_per_slot,
                   buffer_symbols, loss_tolerance, slot_index, buffer_occupancy,
                   loss_slots, max_buffer_usage, min_capacity, max_capacity,
                   iterations, returned, capacity_with_buffer>>

\* estimate_capacity_with_buffer(link_traffic_df, buffer_symbols, loss_tolerance)
EstimateCapacityWithBufferChecked ==
    /\ pc = "estimate_capacity_with_buffer"
    /\ IF LinkColumnsOf(link_traffic) = <<>>
       THEN /\ pc' = "estimate_capacity_with_buffer_raised"
            /\ UNCHANGED capacity_with_buffer
       ELSE /\ capacity_with_buffer' =
                   EstimateCapacityWithBuffer(link_traffic, buffer_symbols, loss_tolerance)
            /\ pc' = "estimate_capacity_with_buffer_returned"
    /\ UNCHANGED <<stageVars, rerunVars, streamVars, link_traffic, traffic_per_slot, capacity_bits_per_slot,
                   buffer_symbols, loss_tolerance, slot_index, buffer_occupancy,
                   loss_slots, max_buffer_usage, min_capacity, max_capacity,
                   iterations, returned, capacity_no_buffer>>

NextSchema ==
    \/ DetectCongestionChecked
    \/ ComputeCorrelationChecked
    \/ ConvertSymbolsToSlotsChecked
    \/ AggregateSlotTrafficByLinkChecked
    \/ EstimateCapacityNoBufferChecked
    \/ EstimateCapacityWithBufferChecked

SpecSchema == InitSchema /\ [][NextSchema]_vars

(***************************************************************************)
(* app.py: the live-stream endpoint                                        *)
(*                                                                         *)
(* _stream_state is shared by all requests; the development server runs    *)
(* every request on a thread of its own, so that the handler of one        *)
(* request runs between the steps of another.  The timestamps of the       *)
(* dataset are named by their positions 0..total_timestamps-1; the risk    *)
(* figures the response carries for every timestamp are left out.          *)
(***************************************************************************)
\* the distinct timestamps of the dataset are at most this many
MaxTimestamps == 3

\* step is at most this large
MaxStep == 2

\* this many clients send requests
MaxClients == 2

Clients == 1..MaxClients

StreamActions == {"next", "reset", "start", "stop", "status"}

\* step = int(request.args.get('step', 10)), a positive number
Steps == 1..MaxStep

\* a thread that handles no request
NoRequest == [pc |-> "idle", action |-> "", step |-> 0, start_idx |-> 0, end_idx |-> 0]

InitStream ==
    /\ pc = "serving"
    /\ StagesIdle
    /\ EstimatorIdle
    /\ RerunIdle
    /\ link_traffic = EmptyTable
    /\ stream_state = [current_index |-> 0, is_streaming |-> FALSE, speed |-> 1]
    /\ total_timestamps \in 1..MaxTimestamps
    /\ requests = [c \in Clients |-> NoRequest]
    /\ response = <<>>

\* what no request writes
streamFixed == <<pc, stageVars, estimatorVars, rerunVars, link_traffic, total_timestamps>>

\* action = request.args.get('action', 'next'); step = int(...)
ReceiveRequest(c) ==
    /\ requests[c].pc = "idle"
    /\ \E action \in StreamActions : \E step \in Steps :
          requests' = [requests EXCEPT ![c] = [pc |-> "received", action |-> action,
                                               step |-> step, start_idx |-> 0,
                                               end_idx |-> 0]]
    /\ UNCHANGED <<streamFixed, stream_state, response>>

LiveStreamReset(c) ==
    /\ requests[c].pc = "received"
    /\ requests[c].action = "reset"
    /\ stream_state' = [stream_state EXCEPT !.current_index = 0, !.is_streaming = FALSE]
    /\ response' = [status |-> "reset", currentIndex |-> 0,
                    totalTimestamps |-> total_timestamps]
    /\ requests' = [requests EXCEPT ![c] = NoRequest]
    /\ UNCHANGED streamFixed

LiveStreamStart(c) ==
    /\ requests[c].pc = "received"
    /\ requests[c].action = "start"
    /\ stream_state' = [stream_state EXCEPT !.is_streaming = TRUE]
    /\ response' = [status |-> "streaming", currentIndex |-> stream_state.current_index,
                    totalTimestamps |-> total_timestamps]
    /\ requests' = [requests EXCEPT ![c] = NoRequest]
    /\ UNCHANGED streamFixed

LiveStreamStop(c) ==
    /\ requests[c].pc = "received"
    /\ requests[c].action = "stop"
    /\ stream_state' = [stream_state EXCEPT !.is_streaming = FALSE]
    /\ response' = [status |-> "stopped", currentIndex |-> stream_state.current_index,
                    totalTimestamps |-> total_timestamps]
    /\ requests' = [requests EXCEPT ![c] = NoRequest]
    /\ UNCHANGED streamFixed

LiveStreamStatus(c) ==
    /\ requests[c].pc = "received"
    /\ requests[c].action = "status"
    /\ response' = [status |-> IF stream_state.is_streaming THEN "streaming" ELSE "stopped",
                    currentIndex |-> stream_state.current_index,
                    totalTimestamps |-> total_timestamps]
    /\ requests' = [requests EXCEPT ![c] = NoRequest]
    /\ UNCHANGED <<streamFixed, stream_state>>

\* end_idx = min(start_idx + step, total_timestamps), forgetting the min
EndIdxUnclipped(start_idx, step, total) == start_idx + step

\* end_idx = min(start_idx + step, total_timestamps)
EndIdx(start_idx, step, total) == Min2(start_idx + step, total)

\* unique_timestamps[start_idx:end_idx], as positions
WindowTimestamps(start_idx, end_idx, total) ==
    LET last == Min2(end_idx, total)
    IN  [i \in 1..(IF last > start_idx THEN last - start_idx ELSE 0) |-> start_idx + i - 1]

\* next, up to the window: the index is read and, at the end of the
\* dataset, set back to 0
LiveStreamNextWindow(c) ==
    /\ requests[c].pc = "received"
    /\ requests[c].action = "next"
    /\ LET step == requests[c].step
           start_idx == stream_state.current_index
       IN  IF start_idx >= total_timestamps
           THEN /\ stream_state' = [stream_state EXCEPT !.current_index = 0]
                /\ requests' = [requests EXCEPT ![c] =
                                   [@ EXCEPT !.pc = "window", !.start_idx = 0,
                                             !.end_idx = EndIdx(0, step, total_timestamps)]]
           ELSE /\ UNCHANGED stream_state
                /\ requests' = [requests EXCEPT ![c] =
                                   [@ EXCEPT !.pc = "window", !.start_idx = start_idx,
                                             !.end_idx = EndIdx(start_idx, step,
                                                                total_timestamps)]]
    /\ UNCHANGED <<streamFixed, response>>

\* next, from the window on: the index advances and the response is sent
LiveStreamNextAdvance(c) ==
    /\ requests[c].pc = "window"
    /\ LET start_idx == requests[c].start_idx
           end_idx == requests[c].end_idx
       IN  /\ stream_state' = [stream_state EXCEPT !.current_index = end_idx]
           /\ response' = [status |-> IF stream_state.is_streaming THEN "streaming"
                                                                   ELSE "paused",
                           timeline |-> WindowTimestamps(start_idx, end_idx,
                                                         total_timestamps),
                           pagination |-> [startIndex |-> start_idx,
                                           endIndex |-> end_idx,
                                           step |-> requests[c].step,
                                           totalTimestamps |-> total_timestamps,
                                           hasMore |-> end_idx < total_timestamps]]
    /\ requests' = [requests EXCEPT ![c] = NoRequest]
    /\ UNCHANGED streamFixed

NextStream ==
    \/ \E c \in Clients : ReceiveRequest(c)
    \/ \E c \in Clients : LiveStreamReset(c)
    \/ \E c \in Clients : LiveStreamStart(c)
    \/ \E c \in Clients : LiveStreamStop(c)
    \/ \E c \in Clients : LiveStreamStatus(c)
    \/ \E c \in Clients : LiveStreamNextWindow(c)
    \/ \E c \in Clients : LiveStreamNextAdvance(c)

SpecStream == InitStream /\ [][NextStream]_vars

(***************************************************************************)
(* Properties of infer_topology                                            *)
(***************************************************************************)
\* the cells that occur in the matrix, as an outer or as an inner key
MatrixCells ==
    {c \in Cells : \/ c \in DOMAIN correlation_matrix
                   \/ \E a \in DOMAIN correlation_matrix : c \in DOMAIN correlation_matrix[a]}

\* the cells that carry label l
Group(l) == {c \in DOMAIN cell_to_link : cell_to_link[c] = l}

Groups == {Group(l) : l \in Range(cell_to_link)}

\* the number of links of the result
NumLinks == Cardinality(Range(cell_to_link))

\* C1: when infer_topology has returned, its result is a total partition of
\* the matrix's cell set: its keys are exactly the cells that occur in the
\* matrix as an outer or inner key, every cell has one link label, and the
\* groups of cells sharing a label are pairwise disjoint and cover the set.
C1_TotalPartition ==
    pc = "topology_done" =>
        /\ DOMAIN cell_to_link = MatrixCells
        /\ \A c \in MatrixCells : \E i \in 1..Cardinality(MatrixCells) :
               cell_to_link[c] = LinkLabel(i)
        /\ UNION Groups = MatrixCells
        /\ \A g, h \in Groups : g # h => g \cap h = {}
        /\ \A g \in Groups : g # {}

\* C1 witness: a returned topology of at least two groups for a matrix in
\* which some cell occurs only as an inner key
C1_Witness ==
    /\ pc = "topology_done"
    /\ MatrixCells \ DOMAIN correlation_matrix # {}
    /\ Cardinality(Groups) >= 2

\* an edge joins a and b when a value stored for the pair, in either
\* direction, is at or above the threshold
HasEdge(a, b) ==
    \/ /\ a \in DOMAIN correlation_matrix
       /\ b \in DOMAIN correlation_matrix[a]
       /\ correlation_matrix[a][b] >= threshold
    \/ /\ b \in DOMAIN correlation_matrix
       /\ a \in DOMAIN correlation_matrix[b]
       /\ correlation_matrix[b][a] >= threshold

\* the cells joined to the cells of S by a path of edges
RECURSIVE ReachableFrom(_)
ReachableFrom(S) ==
    LET T == S \cup {b \in MatrixCells : \E a \in S : HasEdge(a, b)}
    IN  IF T = S THEN S ELSE ReachableFrom(T)

\* C2: two distinct cells get the same link label if and only if a path of
\* edges joins them, an edge being a stored value >= threshold (a value
\* equal to the threshold makes an edge); a cell without any edge is alone.
C2_SameLinkIffConnected ==
    pc = "topology_done" =>
        /\ DOMAIN cell_to_link = MatrixCells
        /\ \A a, b \in MatrixCells :
               a # b => ((cell_to_link[a] = cell_to_link[b]) <=> (b \in ReachableFrom({a})))
        /\ \A a \in MatrixCells :
               (\A b \in MatrixCells : ~HasEdge(a, b)) => Group(cell_to_link[a]) = {a}

\* C2 witness: three cells share a link although two of them have no edge
\* between them (they are linked only through the third), and one of the
\* edges has a value equal to the threshold
C2_Witness ==
    /\ pc = "topology_done"
    /\ \E a, b, c \in MatrixCells :
          /\ a # b /\ b # c /\ a # c
          /\ HasEdge(a, b) /\ HasEdge(b, c) /\ ~HasEdge(a, c)
          /\ cell_to_link[a] = cell_to_link[c]
          /\ a \in DOMAIN correlation_matrix
          /\ b \in DOMAIN correlation_matrix[a]
          /\ correlation_matrix[a][b] = threshold

\* C3: the labels are exactly Link_1 .. Link_k; the size of Link_i is never
\* below the size of Link_(i+1), and when the sizes are equal the smallest
\* member of Link_i is below the smallest member of Link_(i+1).
C3_LabelOrder ==
    pc = "topology_done" =>
        /\ Range(cell_to_link) = {LinkLabel(i) : i \in 1..NumLinks}
        /\ \A i \in 1..(NumLinks - 1) :
               LET g == Group(LinkLabel(i))
                   h == Group(LinkLabel(i + 1))
               IN  \/ Cardinality(g) > Cardinality(h)
                   \/ Cardinality(g) = Cardinality(h) /\ Min(g) < Min(h)

\* C3 witness: the larger group is Link_1 although the smallest cell id is
\* in the smaller group Link_2
C3_Witness ==
    /\ pc = "topology_done"
    /\ NumLinks = 2
    /\ Cardinality(Group(LinkLabel(1))) > Cardinality(Group(LinkLabel(2)))
    /\ Min(Group(LinkLabel(2))) < Min(Group(LinkLabel(1)))

(***************************************************************************)
(* Properties of detect_congestion                                         *)
(***************************************************************************)
\* C6: detect_congestion returns the same records in the same number with
\* every original field unchanged, each annotated with is_congested, true
\* exactly when packet_loss > 0, and leaves the input frame as it was.
C6_DetectCongestion ==
    [][(pc = "congestion" /\ pc' = "congestion_done") =>
        /\ df' = df
        /\ Len(result') = Len(df)
        /\ \A i \in 1..Len(df) :
              /\ DOMAIN result'[i] = DOMAIN df[i] \cup {"is_congested"}
              /\ \A field \in DOMAIN df[i] : result'[i][field] = df[i][field]
              /\ result'[i].is_congested = (df[i].packet_loss > 0)]_vars

\* C6 witness: a returned frame with a congested record and a record whose
\* packet_loss is 0 and which is not congested
C6_Witness ==
    /\ pc = "congestion_done"
    /\ \E i, j \in 1..Len(result) :
          /\ result[i].is_congested /\ result[i].packet_loss > 0
          /\ ~result[j].is_congested /\ result[j].packet_loss = 0

(***************************************************************************)
(* Properties of compute_congestion_correlation                            *)
(***************************************************************************)
\* the cells of the input records
RecordCells == {df[i].cell_id : i \in 1..Len(df)}

\* the timestamps at which cell c is congested
Congested(c) ==
    {t \in Times : \E i \in 1..Len(df) :
        df[i].cell_id = c /\ df[i].timestamp = t /\ df[i].is_congested}

SmallerCount(a, b) ==
    IF Cardinality(Congested(a)) <= Cardinality(Congested(b))
    THEN Cardinality(Congested(a)) ELSE Cardinality(Congested(b))

Overlap(a, b) == Cardinality(Congested(a) \cap Congested(b))

\* C4: for every pair of distinct cells both directions are stored, the two
\* values are equal and lie in [0,1] (0..10000 in units of 1/10000), and
\* no cell has an entry for itself.
C4_CorrelationSymmetric ==
    pc = "correlation_done" =>
        /\ DOMAIN correlation_matrix = RecordCells
        /\ \A a \in RecordCells :
              /\ DOMAIN correlation_matrix[a] = RecordCells \ {a}
              /\ \A b \in RecordCells \ {a} :
                    /\ correlation_matrix[a][b] = correlation_matrix[b][a]
                    /\ correlation_matrix[a][b] >= 0
                    /\ correlation_matrix[a][b] <= 10000

\* C4 witness: two cells with different numbers of congested timestamps and
\* a correlation strictly between 0 and 1
C4_Witness ==
    /\ pc = "correlation_done"
    /\ \E a, b \in RecordCells :
          /\ a # b
          /\ Cardinality(Congested(a)) < Cardinality(Congested(b))
          /\ correlation_matrix[a][b] > 0
          /\ correlation_matrix[a][b] < 10000

\* C5 as stated: the stored value is exactly overlap / min(count_a, count_b),
\* and 0 when one of the two cells has no congested timestamp.
C5_ExactRatio ==
    pc = "correlation_done" =>
        \A a \in RecordCells : \A b \in RecordCells \ {a} :
            IF SmallerCount(a, b) = 0
            THEN correlation_matrix[a][b] = 0
            ELSE correlation_matrix[a][b] * SmallerCount(a, b) = 10000 * Overlap(a, b)

\* C5 amended: the stored value is overlap / min(count_a, count_b) rounded
\* to 4 decimal places (it differs from the ratio by at most 0.00005), and
\* exactly 0 when one of the two cells has no congested timestamp.
C5_RoundedRatio ==
    pc = "correlation_done" =>
        \A a \in RecordCells : \A b \in RecordCells \ {a} :
            IF SmallerCount(a, b) = 0
            THEN correlation_matrix[a][b] = 0
            ELSE LET diff == correlation_matrix[a][b] * SmallerCount(a, b)
                                - 10000 * Overlap(a, b)
                 IN  /\ 2 * diff <= SmallerCount(a, b)
                     /\ -2 * diff <= SmallerCount(a, b)

\* C5 witness: one cell has congested timestamps, the other has none, and
\* the value stored for the pair is 0
C5_Witness ==
    /\ pc = "correlation_done"
    /\ \E a, b \in RecordCells :
          /\ a # b
          /\ Congested(a) = {}
          /\ Congested(b) # {}
          /\ correlation_matrix[a][b] = 0
          /\ correlation_matrix[b][a] = 0

(***************************************************************************)
(* Properties of convert_symbols_to_slots                                  *)
(***************************************************************************)
\* the sum of field over the rows of frame that satisfy Keep
RECURSIVE SumSeq(_)
SumSeq(values) == IF values = <<>> THEN 0 ELSE Head(values) + SumSeq(Tail(values))

SumWhere(frame, field, Keep(_)) ==
    SumSeq([i \in 1..Len(frame) |-> IF Keep(frame[i]) THEN frame[i][field] ELSE 0])

\* C7: for every cell, the slot_throughput_bits of the emitted slot records
\* of the cell add up to the throughput_bits of its input symbol records.
C7_SlotConservation ==
    pc = "slots_done" =>
        \A cell \in SlotCells :
            SumWhere(slot_df, "slot_throughput_bits", LAMBDA r : r.cell_id = cell)
                = SumWhere(df, "throughput_bits", LAMBDA r : r.cell_id = cell)

\* C7 witness: a cell whose symbols fall in two slots, one of them holding
\* more than one symbol
C7_Witness ==
    /\ pc = "slots_done"
    /\ \E i, j \in 1..Len(slot_df) :
          /\ i # j
          /\ slot_df[i].cell_id = slot_df[j].cell_id
          /\ \E a, b \in 1..Len(df) :
                /\ a # b
                /\ df[a].cell_id = slot_df[i].cell_id
                /\ df[b].cell_id = slot_df[i].cell_id
                /\ df[a].symbol_index \div 14 = slot_df[i].slot_id
                /\ df[b].symbol_index \div 14 = slot_df[i].slot_id

\* C8: exactly one record per (cell_id, slot_id) with slot_id =
\* symbol_index div 14 that has a symbol; its slot_throughput_bits is the
\* sum of the cell's symbols in the slot, also for a trailing group of
\* fewer than 14 symbols; the output is ordered by (cell_id, slot_id).
C8_OneRecordPerSlot ==
    pc = "slots_done" =>
        /\ \A i \in 1..Len(df) : \E k \in 1..Len(slot_df) :
              /\ slot_df[k].cell_id = df[i].cell_id
              /\ slot_df[k].slot_id = df[i].symbol_index \div 14
        /\ \A k \in 1..Len(slot_df) :
              /\ \E i \in 1..Len(df) :
                    /\ slot_df[k].cell_id = df[i].cell_id
                    /\ slot_df[k].slot_id = df[i].symbol_index \div 14
              /\ slot_df[k].slot_throughput_bits =
                    SumWhere(df, "throughput_bits",
                             LAMBDA r : /\ r.cell_id = slot_df[k].cell_id
                                        /\ r.symbol_index \div 14 = slot_df[k].slot_id)
        /\ \A k \in 1..(Len(slot_df) - 1) :
              \/ slot_df[k].cell_id < slot_df[k + 1].cell_id
              \/ /\ slot_df[k].cell_id = slot_df[k + 1].cell_id
                 /\ slot_df[k].slot_id < slot_df[k + 1].slot_id

\* C8 witness: a contiguous trace that fills slot 0 with 14 symbols and
\* leaves a trailing slot 1 of fewer than 14 symbols, both emitted
C8_Witness ==
    /\ pc = "slots_done"
    /\ Len(df) > 14
    /\ Len(df) < 28
    /\ \A i \in 1..Len(df) : df[i].symbol_index = i - 1
    /\ Len(slot_df) = 2
    /\ slot_df[1].slot_id = 0
    /\ slot_df[2].slot_id = 1
    /\ slot_df[2].slot_throughput_bits > 0

(***************************************************************************)
(* Properties of aggregate_slot_traffic_by_link                            *)
(***************************************************************************)
\* the sum of the values a row holds in the columns names
RECURSIVE RowSum(_, _)
RowSum(cells, names) ==
    IF names = {} THEN 0
    ELSE LET name == CHOOSE n \in names : TRUE
         IN  cells[name] + RowSum(cells, names \ {name})

\* the column that holds the traffic of the cells absent from the
\* topology: "Unknown_Link_bits"
UnknownColumn ==
    <<85, 110, 107, 110, 111, 119, 110, 95, 76, 105, 110, 107, 95, 98, 105, 116, 115>>

\* the columns of the returned table
LinkColumns == {link_traffic.columns[i] : i \in 1..Len(link_traffic.columns)}

\* C9: in every row of the returned table the link columns add up to the
\* slot_throughput_bits of all input slot records of the row's slot_id,
\* whatever the topology (also one that omits cells).
C9_LinkConservation ==
    pc = "links_done" =>
        \A k \in 1..Len(link_traffic.rows) :
            /\ DOMAIN link_traffic.rows[k].cells = LinkColumns
            /\ RowSum(link_traffic.rows[k].cells, LinkColumns)
                 = SumWhere(slot_df, "slot_throughput_bits",
                            LAMBDA r : r.slot_id = link_traffic.rows[k].slot_id)

\* C9 witness: a row whose traffic is spread over two link columns, one of
\* them fed by a cell that the topology omits
C9_Witness ==
    /\ pc = "links_done"
    /\ \E k \in 1..Len(link_traffic.rows) : \E c, d \in LinkColumns :
          /\ c # d
          /\ c = UnknownColumn
          /\ link_traffic.rows[k].cells[c] > 0
          /\ link_traffic.rows[k].cells[d] > 0

\* C10: the traffic of the cells absent from the topology is in the
\* Unknown_Link column and in no other column (every other column holds
\* exactly the traffic of the cells mapped to its link); every slot of the
\* input has its row, so no record is dropped; and the Unknown_Link column
\* exists exactly when some input cell is absent from the topology.
C10_UnknownLink ==
    pc = "links_done" =>
        /\ (UnknownColumn \in LinkColumns)
              <=> (\E i \in 1..Len(slot_df) : slot_df[i].cell_id \notin DOMAIN topology)
        /\ \A i \in 1..Len(slot_df) : \E k \in 1..Len(link_traffic.rows) :
              link_traffic.rows[k].slot_id = slot_df[i].slot_id
        /\ \A k \in 1..Len(link_traffic.rows) : \A c \in LinkColumns :
              link_traffic.rows[k].cells[c] =
                  SumWhere(slot_df, "slot_throughput_bits",
                           LAMBDA r : /\ r.slot_id = link_traffic.rows[k].slot_id
                                      /\ IF c = UnknownColumn
                                         THEN r.cell_id \notin DOMAIN topology
                                         ELSE /\ r.cell_id \in DOMAIN topology
                                              /\ topology[r.cell_id] \o <<95, 98, 105, 116, 115>> = c)

\* C10 witness: a cell absent from the topology and a cell of the topology
\* carry traffic in the same slot; the absent cell's traffic is the value
\* of the Unknown_Link column
C10_Witness ==
    /\ pc = "links_done"
    /\ \E i, j \in 1..Len(slot_df) : \E k \in 1..Len(link_traffic.rows) :
          /\ slot_df[i].cell_id \notin DOMAIN topology
          /\ slot_df[j].cell_id \in DOMAIN topology
          /\ slot_df[i].slot_id = slot_df[j].slot_id
          /\ link_traffic.rows[k].slot_id = slot_df[i].slot_id
          /\ UnknownColumn \in LinkColumns
          /\ link_traffic.rows[k].cells[UnknownColumn] = slot_df[i].slot_throughput_bits

\* the column that receives the traffic of cell: its link label, or
\* Unknown_Link for a cell absent from the topology, followed by "_bits"
ColumnOf(cell) ==
    IF cell \in DOMAIN topology
    THEN topology[cell] \o <<95, 98, 105, 116, 115>>
    ELSE UnknownColumn

\* C11: the returned table has exactly one row per distinct slot_id of the
\* input; every row holds a value in every link column; the value of a
\* (slot, link) pair to which no input record contributes is 0, not missing.
C11_OneRowPerSlot ==
    pc = "links_done" =>
        /\ {link_traffic.rows[k].slot_id : k \in 1..Len(link_traffic.rows)}
               = {slot_df[i].slot_id : i \in 1..Len(slot_df)}
        /\ \A j, k \in 1..Len(link_traffic.rows) :
               j # k => link_traffic.rows[j].slot_id # link_traffic.rows[k].slot_id
        /\ \A k \in 1..Len(link_traffic.rows) :
              /\ DOMAIN link_traffic.rows[k].cells = LinkColumns
              /\ \A name \in LinkColumns :
                    (\A i \in 1..Len(slot_df) :
                        ~(/\ slot_df[i].slot_id = link_traffic.rows[k].slot_id
                          /\ ColumnOf(slot_df[i].cell_id) = name))
                    => (/\ name \in DOMAIN link_traffic.rows[k].cells
                        /\ link_traffic.rows[k].cells[name] = 0)

\* C11 witness: two slots and two link columns, each slot feeding one of
\* the columns only, so that each row holds a 0 the input never supplied
C11_Witness ==
    /\ pc = "links_done"
    /\ Len(link_traffic.rows) = 2
    /\ Cardinality(LinkColumns) = 2
    /\ \E a, b \in LinkColumns :
          /\ a # b
          /\ link_traffic.rows[1].cells[a] > 0 /\ link_traffic.rows[1].cells[b] = 0
          /\ link_traffic.rows[2].cells[a] = 0 /\ link_traffic.rows[2].cells[b] > 0

\* a is before b in lexicographic order by character code: at the first
\* position where they differ a has the smaller code, or a is a proper
\* prefix of b
LexBefore(a, b) ==
    \E k \in 1..Len(b) :
        /\ \A i \in 1..(k - 1) : i <= Len(a) /\ a[i] = b[i]
        /\ \/ k = Len(a) + 1
           \/ k <= Len(a) /\ a[k] < b[k]

\* the link label of a column: its name without the trailing "_bits"
LabelOfColumn(name) == SubSeq(name, 1, Len(name) - 5)

\* C12 as stated: the link columns are in lexicographic order of their
\* link labels, also when one label is a prefix of another (Link_1 and
\* Link_10).
C12_LabelOrder ==
    pc = "links_done" =>
        \A i, j \in 1..Len(link_traffic.columns) :
            i < j => LexBefore(LabelOfColumn(link_traffic.columns[i]),
                               LabelOfColumn(link_traffic.columns[j]))

\* C12 amended: the link columns are the columns of the links that occur
\* in the input, in lexicographic order of their column names (the link
\* label followed by "_bits").
C12_ColumnNameOrder ==
    pc = "links_done" =>
        /\ LinkColumns = {ColumnOf(slot_df[i].cell_id) : i \in 1..Len(slot_df)}
        /\ \A i, j \in 1..Len(link_traffic.columns) :
              i < j => LexBefore(link_traffic.columns[i], link_traffic.columns[j])

\* C12 witness: the links Link_1 and Link_10 both carry traffic and the
\* column Link_10_bits is placed before the column Link_1_bits
C12_Witness ==
    /\ pc = "links_done"
    /\ link_traffic.columns =
          << <<76, 105, 110, 107, 95, 49, 48, 95, 98, 105, 116, 115>>,
             <<76, 105, 110, 107, 95, 49, 95, 98, 105, 116, 115>> >>

(***************************************************************************)
(* Properties of simulate_buffer                                           *)
(***************************************************************************)
\* the worked example: [10, 10, 40, 10, 10] at capacity 15 with a buffer
\* of 4 symbols (a bit is 14 * 2 * 5 * 1024 = 143360 ticks)
WorkedExample ==
    /\ traffic_per_slot = <<10, 10, 40, 10, 10>>
    /\ capacity_bits_per_slot = 15 * 143360
    /\ buffer_symbols = 4

\* C14: on the trace [10, 10, 40, 10, 10] with capacity 15 and
\* buffer_symbols 4 (buffer size 15 * 4 / 14) simulate_buffer counts no
\* loss in the slots of index 0 and 1, one loss in the slot of index 2 and
\* none after it, and reports total_slots 5, loss_slots 1, loss_ratio 1/5.
C14_WorkedExample ==
    (WorkedExample /\ pc \in {"simulate", "simulate_done"}) =>
        /\ loss_slots = (IF slot_index >= 3 THEN 1 ELSE 0)
        /\ pc = "simulate_done" =>
              /\ returned.total_slots = 5
              /\ returned.loss_slots = 1
              /\ 5 * returned.loss_ratio[1] = returned.loss_ratio[2]
              /\ 14 * returned.buffer_size_bits = 15 * 4 * 143360

\* C14 witness: simulate_buffer has returned on the worked example with
\* one loss slot
C14_Witness ==
    /\ WorkedExample
    /\ pc = "simulate_done"
    /\ slot_index = 5
    /\ returned.loss_slots = 1

(***************************************************************************)
(* Properties of find_minimum_capacity                                     *)
(***************************************************************************)
\* the ticks of a bit for the trace of the run
TraceTicks == 14 * 2 * Len(traffic_per_slot) * 1024

\* the largest value of the trace of the run
TraceMax ==
    CHOOSE m \in {traffic_per_slot[i] : i \in 1..Len(traffic_per_slot)} :
        \A i \in 1..Len(traffic_per_slot) : traffic_per_slot[i] <= m

\* C15: for every pair of tolerances t1 <= t2, find_minimum_capacity with
\* t2 returns a capacity at most the one it returns with t1 (same trace,
\* same buffer size).
C15_ToleranceMonotone ==
    pc = "search_done" =>
        \A t1 \in Tolerances :
            t1 <= loss_tolerance =>
                returned <= FindMinimumCapacity(traffic_per_slot, buffer_symbols, t1)

\* C15 witness: the search has returned with a tolerance for which the
\* capacity is strictly below the capacity of a smaller tolerance
C15_Witness ==
    /\ pc = "search_done"
    /\ traffic_per_slot # <<>>
    /\ \E t1 \in Tolerances :
          /\ t1 < loss_tolerance
          /\ returned < FindMinimumCapacity(traffic_per_slot, buffer_symbols, t1)

\* C16: for every non-empty trace, buffer size and tolerance > 0 the
\* capacity returned by find_minimum_capacity is at most max(trace), the
\* no-buffer capacity of the trace.
C16_AtMostNoBuffer ==
    (pc = "search_done" /\ traffic_per_slot # <<>> /\ loss_tolerance > 0) =>
        returned <= TraceMax * TraceTicks

\* C16 witness: the search has run at least one iteration and returned,
\* with a tolerance > 0, a capacity strictly below max(trace)
C16_Witness ==
    /\ pc = "search_done"
    /\ traffic_per_slot # <<>>
    /\ loss_tolerance > 0
    /\ iterations > 0
    /\ returned < TraceMax * TraceTicks

\* simulate_buffer at capacity c keeps the ratio of loss slots within the
\* tolerance of the run
Feasible(c) ==
    LET sim == SimulateBuffer(InTicks(traffic_per_slot), c, buffer_symbols)
    IN  100 * sim.loss_slots <= loss_tolerance * sim.total_slots

\* C18: for a non-empty trace and a tolerance >= 0 the upper end of the
\* search is a feasible capacity before the loop and after every
\* iteration, and so is the returned capacity: simulate_buffer at it gives
\* loss_ratio <= loss_tolerance.
C18_ReturnedFeasible ==
    /\ pc = "search_loop" => Feasible(max_capacity)
    /\ (pc = "search_done" /\ traffic_per_slot # <<>>) => Feasible(returned)

\* C18 witness: the search has returned, after moving its upper end, a
\* capacity at which the simulation loses slots, within the tolerance
C18_Witness ==
    /\ pc = "search_done"
    /\ traffic_per_slot # <<>>
    /\ returned < TraceMax * TraceTicks
    /\ SimulateBuffer(InTicks(traffic_per_slot), returned, buffer_symbols).loss_slots > 0
    /\ Feasible(returned)

\* capacities in steps of 1/8 bit up to max(trace)
EighthBitCapacities == {k * (TraceTicks \div 8) : k \in 0..(8 * TraceMax)}

\* C19 as stated: no capacity lower than the returned one by more than
\* the precision 0.001 * max(trace) keeps the ratio of loss slots within
\* the tolerance.
C19_ReturnedMinimum ==
    (pc = "search_done" /\ traffic_per_slot # <<>>) =>
        \A c \in EighthBitCapacities :
            (returned - c) > ((TraceMax * TraceTicks) \div 1000) => ~Feasible(c)

(***************************************************************************)
(* Properties of the estimators                                            *)
(***************************************************************************)
\* the ticks of a bit for the traces of the table
TableTicks == 14 * 2 * Len(link_traffic.rows) * 1024

\* C13: for every link column of a table with at least one row,
\* estimate_capacity_no_buffer returns, under the link's label, exactly
\* the maximum of the column's values (also for an all-zero column and for
\* a single row).
C13_NoBufferIsMax ==
    (pc \in {"capacity_no_buffer_done", "capacity_done"} /\ link_traffic.rows # <<>>) =>
        /\ DOMAIN capacity_no_buffer =
              {LabelOfColumn(link_traffic.columns[i]) : i \in 1..Len(link_traffic.columns)}
        /\ \A i \in 1..Len(link_traffic.columns) :
              LET name == link_traffic.columns[i]
                  capacity == capacity_no_buffer[LabelOfColumn(name)]
              IN  /\ \A k \in 1..Len(link_traffic.rows) :
                        link_traffic.rows[k].cells[name] <= capacity
                  /\ \E k \in 1..Len(link_traffic.rows) :
                        link_traffic.rows[k].cells[name] = capacity

\* C13 witness: a table of two rows and two link columns, one all zero
\* and one whose maximum is not in its first row
C13_Witness ==
    /\ pc = "capacity_no_buffer_done"
    /\ Len(link_traffic.rows) = 2
    /\ Len(link_traffic.columns) = 2
    /\ \E a, b \in DOMAIN capacity_no_buffer :
          /\ capacity_no_buffer[a] = 0
          /\ capacity_no_buffer[b] = 2
          /\ link_traffic.rows[1].cells[b \o <<95, 98, 105, 116, 115>>] = 1

\* the link column name holds the same value c in every row
ConstantColumn(name, c) ==
    /\ link_traffic.rows # <<>>
    /\ \A k \in 1..Len(link_traffic.rows) : link_traffic.rows[k].cells[name] = c

\* C17 as stated: for a constant trace of value c, of any length >= 1,
\* both estimators return c (buffer of 4 symbols, tolerance 0.01).
C17_ConstantTraceExact ==
    (pc = "capacity_done" /\ buffer_symbols = 4 /\ loss_tolerance = 1) =>
        \A i \in 1..Len(link_traffic.columns) : \A c \in 0..2 :
            ConstantColumn(link_traffic.columns[i], c) =>
                /\ capacity_no_buffer[LabelOfColumn(link_traffic.columns[i])] = c
                /\ capacity_with_buffer[LabelOfColumn(link_traffic.columns[i])]
                      = c * TableTicks

\* C17 amended: for a constant trace of value c the no-buffer capacity is
\* c; the buffer-aware capacity is at most c, and it is c when c <= 1.
C17_ConstantTraceAtMost ==
    (pc = "capacity_done" /\ buffer_symbols = 4 /\ loss_tolerance = 1) =>
        \A i \in 1..Len(link_traffic.columns) : \A c \in 0..2 :
            ConstantColumn(link_traffic.columns[i], c) =>
                /\ capacity_no_buffer[LabelOfColumn(link_traffic.columns[i])] = c
                /\ capacity_with_buffer[LabelOfColumn(link_traffic.columns[i])]
                      <= c * TableTicks
                /\ c <= 1 =>
                      capacity_with_buffer[LabelOfColumn(link_traffic.columns[i])]
                         = c * TableTicks

\* C17 witness: one link is constant at 1 and gets the capacity 1 in both
\* regimes; the other is constant at 2 and gets the buffer-aware capacity
\* 797/512 (a single slot of 2 bits fits at 14/18 of its size)
C17_Witness ==
    /\ pc = "capacity_done"
    /\ buffer_symbols = 4
    /\ loss_tolerance = 1
    /\ Len(link_traffic.rows) = 1
    /\ Len(link_traffic.columns) = 2
    /\ ConstantColumn(link_traffic.columns[1], 2)
    /\ ConstantColumn(link_traffic.columns[2], 1)
    /\ capacity_no_buffer[LabelOfColumn(link_traffic.columns[1])] = 2
    /\ 512 * capacity_with_buffer[LabelOfColumn(link_traffic.columns[1])] = 797 * TableTicks
    /\ capacity_with_buffer[LabelOfColumn(link_traffic.columns[2])] = TableTicks

(***************************************************************************)
(* Properties of the whole pipeline                                        *)
(***************************************************************************)
\* C20: a second run of the pipeline on the same input ends with the same
\* correlation matrix, the same topology and the same two capacity
\* estimates as the first, whatever the orders in which the two runs
\* iterate over the set of cells and over the adjacency sets.
C20_RerunIdentical ==
    (pc = "pipeline_done" /\ previous # <<>>) =>
        /\ previous.correlation_matrix = correlation_matrix
        /\ previous.topology = cell_to_link
        /\ previous.no_buffer = capacity_no_buffer
        /\ previous.with_buffer = capacity_with_buffer

\* C20 witness: two cells without a common congested instant form two
\* links of equal size; the first run visited cell 1 first, the second run
\* cell 2, and both label the link of cell 1 Link_1
C20_Witness ==
    /\ pc = "pipeline_done"
    /\ previous # <<>>
    /\ previous.visit_order[1] = 1
    /\ visit_order[1] = 2
    /\ cell_to_link[1] = <<76, 105, 110, 107, 95, 49>>
    /\ cell_to_link[2] = <<76, 105, 110, 107, 95, 50>>
    /\ previous.topology = cell_to_link
    /\ DOMAIN capacity_with_buffer # {}

(***************************************************************************)
(* C21: infer_topology applied to an empty correlation matrix returns an   *)
(* empty topology and raises no error: on the empty matrix the call can    *)
(* always be made, and what it returns has no cell at all.                 *)
(***************************************************************************)
C21_EmptyMatrixEmptyTopology ==
    (DOMAIN correlation_matrix = {}) =>
        /\ pc = "topology" => ENABLED InferTopologyCall
        /\ pc = "topology_done" => DOMAIN cell_to_link = {}

C21_Witness ==
    /\ pc = "topology_done"
    /\ DOMAIN correlation_matrix = {}
    /\ DOMAIN cell_to_link = {}

\* the pair (a, b) is stored in the matrix in that direction
Stored(a, b) == a \in DOMAIN correlation_matrix /\ b \in DOMAIN correlation_matrix[a]

\* the matrix completed to both directions: a pair stored in one direction
\* only is stored in the other direction with the same value, a pair stored
\* in both directions keeps its two values
BothDirections ==
    [a \in MatrixCells |->
        [b \in {c \in MatrixCells : Stored(a, c) \/ Stored(c, a)} |->
            IF Stored(a, b) THEN correlation_matrix[a][b] ELSE correlation_matrix[b][a]]]

(***************************************************************************)
(* C26: infer_topology does not assume that the matrix is populated in     *)
(* both directions.  Whatever directions are stored, and whether or not    *)
(* the two directions of a pair agree, the call never ends in an error;    *)
(* its result joins two cells whenever the value stored in either          *)
(* direction is >= threshold, covers the cells that appear only as inner   *)
(* keys, and equals the topology of the matrix completed to both           *)
(* directions.                                                             *)
(***************************************************************************)
C26_EitherDirection ==
    /\ pc # "topology_error"
    /\ pc = "topology_done" =>
        /\ \A a, b \in MatrixCells :
               (Stored(a, b) /\ correlation_matrix[a][b] >= threshold) =>
                   /\ a \in DOMAIN cell_to_link
                   /\ b \in DOMAIN cell_to_link
                   /\ cell_to_link[a] = cell_to_link[b]
        /\ LET order == SortedInts(MatrixCells)
           IN  cell_to_link = InferTopology(BothDirections, threshold, order, order)

\* C26 witness: a returned topology for a matrix that stores a pair at or
\* above the threshold in one direction only, its second cell being an
\* inner key only, and the two cells share a link
C26_Witness ==
    /\ pc = "topology_done"
    /\ \E a, b \in MatrixCells :
          /\ Stored(a, b)
          /\ ~Stored(b, a)
          /\ b \notin DOMAIN correlation_matrix
          /\ correlation_matrix[a][b] >= threshold
          /\ cell_to_link[a] = cell_to_link[b]

\* the table has no link column: no column name ends with "_bits"
NoLinkColumn(table) ==
    \A i \in 1..Len(table.columns) :
        LET name == table.columns[i]
        IN  \/ Len(name) < 5
            \/ SubSeq(name, Len(name) - 4, Len(name)) # <<95, 98, 105, 116, 115>>

(***************************************************************************)
(* C22: every stage fails with an error, before computing and without      *)
(* returning any result, when its required schema is absent.  Every call   *)
(* of a stage function on an input that lacks one of the columns the       *)
(* stage requires (for the estimators: that has no column ending in        *)
(* _bits) ends in the raised state of that stage, and the variable that    *)
(* would receive the result keeps its initial, empty value.                *)
(***************************************************************************)
C22_MissingSchemaRaises ==
    [][/\ (pc = "detect_congestion" /\ "packet_loss" \notin df.columns) =>
              (pc' = "detect_congestion_raised" /\ result' = <<>>)
       /\ (/\ pc = "compute_congestion_correlation"
           /\ {"timestamp", "cell_id", "is_congested"} \ df.columns # {}) =>
              (/\ pc' = "compute_congestion_correlation_raised"
               /\ correlation_matrix' = EmptyDict)
       /\ (/\ pc = "convert_symbols_to_slots"
           /\ {"cell_id", "symbol_index", "throughput_bits"} \ df.columns # {}) =>
              (pc' = "convert_symbols_to_slots_raised" /\ slot_df' = <<>>)
       /\ (/\ pc = "aggregate_slot_traffic_by_link"
           /\ {"slot_id", "cell_id", "slot_throughput_bits"} \ slot_df.columns # {}) =>
              (/\ pc' = "aggregate_slot_traffic_by_link_raised"
               /\ link_traffic' = EmptyTable)
       /\ (pc = "estimate_capacity_no_buffer" /\ NoLinkColumn(link_traffic)) =>
              (/\ pc' = "estimate_capacity_no_buffer_raised"
               /\ capacity_no_buffer' = EmptyDict)
       /\ (pc = "estimate_capacity_with_buffer" /\ NoLinkColumn(link_traffic)) =>
              (/\ pc' = "estimate_capacity_with_buffer_raised"
               /\ capacity_with_buffer' = EmptyDict)
      ]_vars

\* C22 witness: estimate_capacity_with_buffer has raised on a table that
\* has a row and a column, none ending in _bits
C22_Witness ==
    /\ pc = "estimate_capacity_with_buffer_raised"
    /\ link_traffic.columns # <<>>
    /\ link_traffic.rows # <<>>
    /\ capacity_with_buffer = EmptyDict

(***************************************************************************)
(* C23: for every fixed trace and buffer_symbols the loss reported by      *)
(* simulate_buffer is non-increasing in the capacity: of two calls on the  *)
(* same trace, the one with the larger capacity reports at most as many    *)
(* loss slots, and so a loss ratio that is not larger.                     *)
(***************************************************************************)
C23_LossMonotone ==
    pc = "compare_done" =>
        /\ returned[2].loss_slots <= returned[1].loss_slots
        /\ returned[2].loss_ratio[1] * returned[1].loss_ratio[2]
               <= returned[1].loss_ratio[1] * returned[2].loss_ratio[2]

(***************************************************************************)
(* C24: the binary search of find_minimum_capacity always terminates and   *)
(* runs at most 100 iterations: every pass of the loop adds one to the     *)
(* iteration count, which never exceeds 100, and replaces exactly one of   *)
(* the bounds by mid = (lo + hi) / 2 (hi when the loss ratio simulated at  *)
(* mid is within the tolerance, lo otherwise), leaving the other bound as  *)
(* it is; when the loop is left, hi - lo <= 0.001 * max(trace) or exactly  *)
(* 100 iterations were executed.                                           *)
(***************************************************************************)
C24_SearchTerminates ==
    [][/\ iterations <= 100
       /\ iterations' <= 100
       /\ (pc = "search_loop" /\ pc' = "search_loop") =>
              /\ iterations' = iterations + 1
              /\ \/ /\ Feasible((min_capacity + max_capacity) \div 2)
                    /\ 2 * max_capacity' = min_capacity + max_capacity
                    /\ min_capacity' = min_capacity
                 \/ /\ ~Feasible((min_capacity + max_capacity) \div 2)
                    /\ 2 * min_capacity' = min_capacity + max_capacity
                    /\ max_capacity' = max_capacity
       /\ (pc = "search_loop" /\ pc' = "search_done") =>
              /\ \/ max_capacity - min_capacity <= (TraceMax * TraceTicks) \div 1000
                 \/ iterations = 100
              /\ iterations' = iterations
              /\ min_capacity' = min_capacity
              /\ max_capacity' = max_capacity
       /\ pc = "search_loop" => pc' \in {"search_loop", "search_done"}
      ]_vars

\* C24 witness: the search has returned after ten iterations that moved
\* both of its ends
C24_Witness ==
    /\ pc = "search_done"
    /\ iterations = 10
    /\ min_capacity > 14 * 1024 * SumOf(traffic_per_slot)
    /\ min_capacity > TraceTicks
    /\ max_capacity < TraceMax * TraceTicks
    /\ max_capacity - min_capacity <= (TraceMax * TraceTicks) \div 1000

(***************************************************************************)
(* C25: in simulate_buffer, with capacity >= 0 and non-negative traffic,   *)
(* after every slot 0 <= occupancy <= buffer_size_bits = capacity *        *)
(* buffer_symbols / 14.  A slot is counted as a loss slot exactly when     *)
(* occupancy + slot_traffic - min(occupancy + slot_traffic, capacity) is   *)
(* strictly greater than buffer_size_bits; then the occupancy becomes      *)
(* buffer_size_bits, and otherwise it becomes that remainder.  So          *)
(* max_buffer_usage <= buffer_size_bits and loss_slots <= total_slots,     *)
(* during the loop and in the returned dictionary.                         *)
(***************************************************************************)
C25_OccupancyBounded ==
    [][/\ (pc = "simulate" /\ slot_index' = slot_index + 1) =>
              LET incoming == buffer_occupancy
                                  + traffic_per_slot[slot_index + 1] * TraceTicks
                  remainder == incoming
                                  - (IF incoming <= capacity_bits_per_slot
                                     THEN incoming ELSE capacity_bits_per_slot)
              IN  /\ IF 14 * remainder > capacity_bits_per_slot * buffer_symbols
                     THEN /\ loss_slots' = loss_slots + 1
                          /\ 14 * buffer_occupancy' = capacity_bits_per_slot * buffer_symbols
                     ELSE /\ loss_slots' = loss_slots
                          /\ buffer_occupancy' = remainder
                  /\ 0 <= buffer_occupancy'
                  /\ 14 * buffer_occupancy' <= capacity_bits_per_slot * buffer_symbols
                  /\ 14 * max_buffer_usage' <= capacity_bits_per_slot * buffer_symbols
                  /\ loss_slots' <= slot_index'
       /\ (pc = "simulate" /\ pc' = "simulate_done") =>
              /\ returned'.loss_slots <= returned'.total_slots
              /\ returned'.total_slots = Len(traffic_per_slot)
              /\ 14 * returned'.max_buffer_usage <= capacity_bits_per_slot * buffer_symbols
              /\ 14 * returned'.buffer_size_bits = capacity_bits_per_slot * buffer_symbols
      ]_vars

\* C25 witness: the simulation has returned for a trace of which at least
\* two slots overflowed the buffer and at least one did not; the buffer
\* was filled to its size and is below it at the end
C25_Witness ==
    /\ pc = "simulate_done"
    /\ returned.loss_slots >= 2
    /\ returned.loss_slots < returned.total_slots
    /\ returned.buffer_size_bits > 0
    /\ returned.max_buffer_usage = returned.buffer_size_bits
    /\ buffer_occupancy < returned.buffer_size_bits

\* the table reduced to the one link column name
OnlyColumn(name) ==
    [columns |-> <<name>>,
     rows |-> [k \in 1..Len(link_traffic.rows) |->
                 [slot_id |-> link_traffic.rows[k].slot_id,
                  cells |-> [c \in {name} |-> link_traffic.rows[k].cells[name]]]]]

\* the table with every column but name holding the value other[k] in
\* its k-th row
OtherColumnsChanged(name, other) ==
    [columns |-> link_traffic.columns,
     rows |-> [k \in 1..Len(link_traffic.rows) |->
                 [slot_id |-> link_traffic.rows[k].slot_id,
                  cells |-> [c \in DOMAIN link_traffic.rows[k].cells |->
                                IF c = name THEN link_traffic.rows[k].cells[c]
                                ELSE other[k]]]]]

(***************************************************************************)
(* C27: capacity estimation is independent across links.  The results of   *)
(* estimate_capacity_no_buffer and estimate_capacity_with_buffer have      *)
(* exactly one entry per link column, and the value of a link is the one   *)
(* the estimator returns for the table that holds that link's column       *)
(* alone, and for every table in which the columns of the other links      *)
(* hold other values (a table of one link has no other link).              *)
(***************************************************************************)
C27_LinksIndependent ==
    pc = "capacity_done" =>
        /\ Cardinality(DOMAIN capacity_no_buffer) = Len(link_traffic.columns)
        /\ Cardinality(DOMAIN capacity_with_buffer) = Len(link_traffic.columns)
        /\ \A i \in 1..Len(link_traffic.columns) :
              LET name == link_traffic.columns[i]
                  label == SubSeq(name, 1, Len(name) - 5)
              IN  /\ label \in DOMAIN capacity_no_buffer
                  /\ label \in DOMAIN capacity_with_buffer
                  /\ Len(link_traffic.columns) >= 2 =>
                        /\ capacity_no_buffer[label] =
                               EstimateCapacityNoBuffer(OnlyColumn(name))[label]
                        /\ capacity_with_buffer[label] =
                               EstimateCapacityWithBuffer(OnlyColumn(name), buffer_symbols,
                                                          loss_tolerance)[label]
                        /\ \A other \in [1..Len(link_traffic.rows) -> {0, 2}] :
                              /\ capacity_no_buffer[label] =
                                     EstimateCapacityNoBuffer(
                                         OtherColumnsChanged(name, other))[label]
                              /\ capacity_with_buffer[label] =
                                     EstimateCapacityWithBuffer(
                                         OtherColumnsChanged(name, other), buffer_symbols,
                                         loss_tolerance)[label]

\* C27 witness: both estimators have returned for a table of two rows and
\* two link columns with different values, and the two links got
\* different capacities from both
C27_Witness ==
    /\ pc = "capacity_done"
    /\ Len(link_traffic.rows) = 2
    /\ Len(link_traffic.columns) = 2
    /\ \E a, b \in DOMAIN capacity_with_buffer :
          /\ capacity_no_buffer[a] < capacity_no_buffer[b]
          /\ capacity_with_buffer[a] < capacity_with_buffer[b]

\* the values of the link column name in ascending slot_id order (the
\* slot ids of a table of n rows are 0 .. n-1)
InSlotOrder(name) ==
    [k \in 1..Len(link_traffic.rows) |->
        link_traffic.rows[CHOOSE r \in 1..Len(link_traffic.rows) :
                              link_traffic.rows[r].slot_id = k - 1].cells[name]]

\* the order of the rows of the table that is ascending in slot_id
Ascending ==
    [k \in 1..Len(link_traffic.rows) |->
        CHOOSE r \in 1..Len(link_traffic.rows) : link_traffic.rows[r].slot_id = k - 1]

\* the table with its rows in the order perm
RowsPermuted(perm) ==
    [columns |-> link_traffic.columns,
     rows |-> [k \in 1..Len(link_traffic.rows) |-> link_traffic.rows[perm[k]]]]

(***************************************************************************)
(* C28: estimate_capacity_with_buffer simulates each link's traffic in     *)
(* ascending slot_id order whatever the row order of the input table: the  *)
(* capacity of every link is the one find_minimum_capacity returns for     *)
(* the link's values taken in slot_id order, so that every permutation of  *)
(* the rows of a table (distinct slot_ids) gives the same result: the      *)
(* result of every table is that of its rows put in ascending and in       *)
(* descending slot_id order.                                               *)
(***************************************************************************)
C28_RowOrderIndependent ==
    pc = "capacity_done" =>
        /\ \A i \in 1..Len(link_traffic.columns) :
              LET name == link_traffic.columns[i]
              IN  capacity_with_buffer[SubSeq(name, 1, Len(name) - 5)] =
                      FindMinimumCapacity(InSlotOrder(name), buffer_symbols, loss_tolerance)
        /\ \A perm \in {Ascending, Reverse(Ascending)} :
              EstimateCapacityWithBuffer(RowsPermuted(perm), buffer_symbols, loss_tolerance)
                  = capacity_with_buffer

\* C28 witness: the estimator has returned for a table whose rows are not
\* in slot_id order and whose link column gives another capacity when it
\* is read in row order
C28_Witness ==
    /\ pc = "capacity_done"
    /\ Len(link_traffic.rows) >= 2
    /\ link_traffic.rows[1].slot_id > link_traffic.rows[2].slot_id
    /\ \E i \in 1..Len(link_traffic.columns) :
          LET name == link_traffic.columns[i]
          IN  capacity_with_buffer[SubSeq(name, 1, Len(name) - 5)] #
                  FindMinimumCapacity(
                      [k \in 1..Len(link_traffic.rows) |-> link_traffic.rows[k].cells[name]],
                      buffer_symbols, loss_tolerance)

\* max(0.5 * mean(trace), 1.0) of the trace of the run, in ticks
TraceFloor ==
    IF 14 * 1024 * SumOf(traffic_per_slot) >= TraceTicks
    THEN 14 * 1024 * SumOf(traffic_per_slot) ELSE TraceTicks

(***************************************************************************)
(* C29: for every non-empty trace the value returned by                    *)
(* find_minimum_capacity is at most max(trace) and, when max(trace) is at  *)
(* least the floor max(0.5 * mean(trace), 1.0), at least that floor, the   *)
(* ends of the search satisfying floor <= lo <= hi <= max(trace)           *)
(* throughout; when max(trace) is below the floor the loop does not run    *)
(* and max(trace) itself is returned; for an empty trace 0.0 is returned.  *)
(***************************************************************************)
C29_ResultBounds ==
    /\ (pc = "search_loop" /\ TraceMax * TraceTicks >= TraceFloor) =>
           /\ TraceFloor <= min_capacity
           /\ min_capacity <= max_capacity
           /\ max_capacity <= TraceMax * TraceTicks
    /\ (pc = "search_loop" /\ TraceMax * TraceTicks < TraceFloor) =>
           /\ iterations = 0
           /\ max_capacity = TraceMax * TraceTicks
    /\ (pc = "search_done" /\ traffic_per_slot # <<>>) =>
           /\ returned <= TraceMax * TraceTicks
           /\ TraceMax * TraceTicks >= TraceFloor => returned >= TraceFloor
           /\ TraceMax * TraceTicks < TraceFloor =>
                  (iterations = 0 /\ returned = TraceMax * TraceTicks)
    /\ (pc = "search_done" /\ traffic_per_slot = <<>>) => returned = 0

\* C29 witness: the search has returned, after iterations that never moved
\* its lower end, a capacity strictly between the floor and max(trace)
C29_Witness ==
    /\ pc = "search_done"
    /\ traffic_per_slot # <<>>
    /\ iterations > 0
    /\ min_capacity = TraceFloor
    /\ TraceFloor < returned
    /\ returned < TraceMax * TraceTicks

(***************************************************************************)
(* C30: in the live-stream endpoint, with at least one timestamp and every *)
(* step at least 1, the shared current_index stays within                  *)
(* 0..total_timestamps whatever requests are served.  A next request takes *)
(* the window from the current_index it reads to the smaller of that plus  *)
(* step and total_timestamps, starting again from 0 when the index it      *)
(* reads is total_timestamps; it answers with that window and leaves       *)
(* current_index at the window's end.  A reset request sets current_index  *)
(* to 0 and is_streaming to false; start, stop and status requests leave   *)
(* current_index as it is.                                                 *)
(***************************************************************************)
C30_CurrentIndexBounded ==
    /\ [](pc = "serving" =>
             /\ 0 <= stream_state.current_index
             /\ stream_state.current_index <= total_timestamps)
    /\ [][\A c \in Clients :
             /\ (requests[c].pc = "received" /\ requests'[c].pc # "received") =>
                    LET action == requests[c].action
                        current_index == stream_state.current_index
                    IN  /\ action = "reset" =>
                               /\ stream_state'.current_index = 0
                               /\ stream_state'.is_streaming = FALSE
                        /\ action \in {"start", "stop", "status"} =>
                               stream_state'.current_index = current_index
                        /\ action = "next" =>
                               LET first == IF current_index = total_timestamps
                                            THEN 0 ELSE current_index
                               IN  /\ requests'[c].pc = "window"
                                   /\ requests'[c].start_idx = first
                                   /\ requests'[c].end_idx =
                                          (IF first + requests[c].step <= total_timestamps
                                           THEN first + requests[c].step
                                           ELSE total_timestamps)
             /\ (requests[c].pc = "window" /\ requests'[c].pc # "window") =>
                    LET first == requests[c].start_idx
                        end == requests[c].end_idx
                    IN  /\ stream_state'.current_index = end
                        /\ response'.pagination.startIndex = first
                        /\ response'.pagination.endIndex = end
                        /\ response'.timeline = [i \in 1..(end - first) |-> first + i - 1]
       ]_vars

\* C30 witness: the last response was a window that ended at the end of a
\* dataset of several timestamps, and the next request after it has set
\* the index back and taken its window from 0
C30_Witness ==
    /\ pc = "serving"
    /\ total_timestamps >= 2
    /\ "pagination" \in DOMAIN response
    /\ response.pagination.endIndex = total_timestamps
    /\ stream_state.current_index = 0
    /\ \E c \in Clients :
          /\ requests[c].pc = "window"
          /\ requests[c].start_idx = 0
          /\ requests[c].end_idx > 0

====
